---- MODULE Spec2Model ----
(***************************************************************************)
(* Model of scripts/compile/build.py and scripts/compile/platforms/*.py:   *)
(* one run of main (configure -> build -> test -> copy), the CMake cache   *)
(* invalidator with its retry/rename-aside removal loops, and the          *)
(* per-platform generator resolvers (get_cmake_args).                      *)
(*                                                                         *)
(* The file system, the cmake/test subprocesses and the probe commands are *)
(* the environment: every outcome they can have (an unlink raising         *)
(* PermissionError, a non-zero exit status, a probe timing out) is a       *)
(* nondeterministic choice of the action that performs the call.           *)
(***************************************************************************)
EXTENDS Integers, Sequences, FiniteSets, TLC

\* Python's None, for optional strings.
None == "None"

\* ---------------------------------------------------------------- inputs

\* sys.platform of the invoking machine.
Hosts == {"linux", "win32", "darwin"}

\* --platform choices.
Platforms == {"linux", "windows", "macos", "android", "ios"}

\* --arch choices (the 64-bit, the 32-bit and one mobile ABI).
Archs == {"x86_64", "x86", "arm64-v8a"}

\* --generator: absent, or a generator name passed verbatim.
GeneratorArgs == {None, "Visual Studio 17 2022", "Ninja"}

\* --toolchain: absent, or a toolchain file.
ToolchainArgs == {None, "tc.cmake"}

\* Generator names a probe command (`cmake -G`, `cmake --help`) may print on
\* stdout.
ProbeOutputs ==
    { {},
      {"Visual Studio 17 2022", "Visual Studio 16 2019", "Ninja"},
      {"Visual Studio 18 2025", "Visual Studio 17 2022", "MinGW Makefiles"},
      {"Visual Studio 12 2013", "Unix Makefiles"},
      {"MinGW Makefiles", "Ninja", "Unix Makefiles"},
      {"Ninja", "Unix Makefiles"},
      {"Ninja Multi-Config", "Unix Makefiles"} }

\* What one probe subprocess does: exit 0, exit non-zero, raise an exception
\* the detectors catch (TimeoutExpired / FileNotFoundError), or raise one they
\* do not catch (PermissionError or another OSError: cmake cannot be started).
ProbeStatus == {"ok", "nonzero", "raise", "oserror"}

\* One detector's probing: the outcome of `cmake -G`, of `cmake --help`, and
\* the generators on the stdout of the one that exits 0.
ProbeRuns == [primary : ProbeStatus, secondary : ProbeStatus, gens : ProbeOutputs]

\* The probing of a detector that is not called.
NoProbe == [primary |-> "ok", secondary |-> "ok", gens |-> {}]

\* os.environ: the variables set besides PATH and SHELL, and the values of
\* those two ("" when unset).
PlainEnviron == [names |-> {}, PATH |-> "C:/Windows/system32", SHELL |-> ""]

Environs ==
    { PlainEnviron,
      [PlainEnviron EXCEPT !.names = {"MSYSTEM"}],
      [PlainEnviron EXCEPT !.names = {"MSYS"}],
      [PlainEnviron EXCEPT !.names = {"MSYS2_PATH"}],
      [PlainEnviron EXCEPT !.PATH = "C:/MSYS64/usr/bin;C:/Windows/system32"],
      [PlainEnviron EXCEPT !.SHELL = "C:/msys64/usr/bin/bash.exe"] }

\* The environment get_cmake_args looks at: os.environ, the probing of the
\* two detectors, and the outcome of `xcrun` (iOS).
Envs == [environ : Environs, vs : ProbeRuns, alt : ProbeRuns, xcrun : BOOLEAN]

\* The environment of a call that runs no probe.
NoEnv == [environ |-> PlainEnviron, vs |-> NoProbe, alt |-> NoProbe, xcrun |-> TRUE]

\* ----------------------------------------------------------- exceptions

\* An exception: its class and the parts of its message.
Error(type, msg) == [type |-> type, msg |-> msg]

NoError == Error(None, << >>)

\* What a warning says: which one it is, and the generator its text names.
Warning(kind, generator) == [kind |-> kind, generator |-> generator]

\* The result of a get_cmake_args call: raised (and the exception), the
\* argument list, the value left in WindowsBuilder._generator, the warnings
\* emitted and the subprocesses run.
Resolved(args, gen, warns, cmds) ==
    [raised |-> FALSE, error |-> NoError, args |-> args, generator |-> gen,
     warnings |-> warns, cmds |-> cmds]

Raised(e) ==
    [raised |-> TRUE, error |-> e, args |-> << >>, generator |-> None,
     warnings |-> {}, cmds |-> << >>]

\* ------------------------------------------------- platforms/windows.py

msys_vars == {"MSYSTEM", "MSYS", "MSYS2_PATH"}

\* str.lower() over the PATH and SHELL values and the test filters of the model.
Lower(s) ==
    CASE s = "C:/Windows/system32" -> "c:/windows/system32"
      [] s = "C:/MSYS64/usr/bin;C:/Windows/system32" -> "c:/msys64/usr/bin;c:/windows/system32"
      [] s = "C:/msys64/usr/bin/bash.exe" -> "c:/msys64/usr/bin/bash.exe"
      [] s = "SIMPLE" -> "simple"
      [] s = "Linux" -> "linux"
      [] s = "Windows" -> "windows"
      [] s = "Darwin" -> "darwin"
      [] OTHER -> s

\* `sub in s` for the substrings the script looks for in PATH and SHELL, and
\* for the test filters in the names of the tests.
Occurs(sub, s) ==
    \/ /\ sub \in {"msys64", "msys"}
       /\ s \in {"c:/msys64/usr/bin;c:/windows/system32", "c:/msys64/usr/bin/bash.exe"}
    \/ sub = "simple" /\ s = "test_simple"

_is_msys_environment(environ) ==
    \/ \E var \in msys_vars : var \in environ.names
    \/ \E sub \in {"msys64", "msys2", "msys"} : Occurs(sub, Lower(environ.PATH))
    \/ Occurs("msys", Lower(environ.SHELL))

\* Lines 43-50 with the list in ascending order: the oldest version wins.
known_vs_versions_ascending ==
    << "Visual Studio 14 2015", "Visual Studio 15 2017", "Visual Studio 16 2019",
       "Visual Studio 17 2022", "Visual Studio 18 2025", "Visual Studio 19 2026" >>

known_vs_versions ==
    << "Visual Studio 19 2026", "Visual Studio 18 2025", "Visual Studio 17 2022",
       "Visual Studio 16 2019", "Visual Studio 15 2017", "Visual Studio 14 2015" >>

alternatives == << "MinGW Makefiles", "Ninja", "Unix Makefiles" >>

\* str.startswith("Visual Studio") over the generator names of the model.
IsVisualStudio(g) ==
    g \in {"Visual Studio 19 2026", "Visual Studio 18 2025", "Visual Studio 17 2022",
           "Visual Studio 16 2019", "Visual Studio 15 2017", "Visual Studio 14 2015",
           "Visual Studio 12 2013"}

\* str.startswith("MinGW").
IsMinGW(g) == g = "MinGW Makefiles"

\* `name in available_generators`: the name occurs in the text of stdout, as
\* a generator of its own or inside a longer name.
Mentions(out, name) ==
    \E g \in out : g = name \/ (name = "Ninja" /\ g = "Ninja Multi-Config")

\* The first element of seq that stdout mentions, or None.
RECURSIVE FirstIn(_, _)
FirstIn(seq, out) ==
    IF seq = << >> THEN None
    ELSE IF Mentions(out, Head(seq)) THEN Head(seq)
    ELSE FirstIn(Tail(seq), out)

\* The probe sequence with `cmake --help` tried after a non-zero exit of
\* `cmake -G` as well.
ProbeGeneratorsRetryOnNonzero(run) ==
    LET caught(cmds, raised, out) ==
            [cmds |-> cmds, raised |-> raised, out |-> out, uncaught |-> FALSE]
    IN  IF run.primary = "ok"
        THEN caught(<< "cmake -G" >>, FALSE, run.gens)
        ELSE IF run.primary = "oserror"
        THEN [cmds |-> << "cmake -G" >>, raised |-> FALSE, out |-> {}, uncaught |-> TRUE]
        ELSE IF run.secondary = "ok"
        THEN caught(<< "cmake -G", "cmake --help" >>, FALSE, run.gens)
        ELSE IF run.secondary = "nonzero"
        THEN caught(<< "cmake -G", "cmake --help" >>, FALSE, {})
        ELSE IF run.secondary = "oserror"
        THEN [cmds |-> << "cmake -G", "cmake --help" >>, raised |-> FALSE, out |-> {},
              uncaught |-> TRUE]
        ELSE caught(<< "cmake -G", "cmake --help" >>, TRUE, {})

\* The probe sequence shared by both detectors: `cmake -G` first; `cmake
\* --help` only when the first call raises.  Returns the commands run,
\* whether both raised, and the stdout kept (empty unless a probe exited 0).
ProbeGenerators(run) ==
    LET caught(cmds, raised, out) ==
            [cmds |-> cmds, raised |-> raised, out |-> out, uncaught |-> FALSE]
    IN  IF run.primary = "ok"
        THEN caught(<< "cmake -G" >>, FALSE, run.gens)
        ELSE IF run.primary = "nonzero"
        THEN caught(<< "cmake -G" >>, FALSE, {})
        ELSE IF run.primary = "oserror"
        THEN [cmds |-> << "cmake -G" >>, raised |-> FALSE, out |-> {}, uncaught |-> TRUE]
        ELSE IF run.secondary = "ok"
        THEN caught(<< "cmake -G", "cmake --help" >>, FALSE, run.gens)
        ELSE IF run.secondary = "nonzero"
        THEN caught(<< "cmake -G", "cmake --help" >>, FALSE, {})
        ELSE IF run.secondary = "oserror"
        THEN [cmds |-> << "cmake -G", "cmake --help" >>, raised |-> FALSE, out |-> {},
              uncaught |-> TRUE]
        ELSE caught(<< "cmake -G", "cmake --help" >>, TRUE, {})

\* re.findall(r"Visual Studio \d+ \d{4}", out)[0]: any Visual Studio generator
\* of the output (the model's outputs hold at most one unknown version).
AnyVisualStudio(out) ==
    IF \E g \in out : IsVisualStudio(g)
    THEN CHOOSE g \in out : IsVisualStudio(g)
    ELSE None

_detect_visual_studio_generator(run) ==
    LET p == ProbeGenerators(run)
        known == FirstIn(known_vs_versions, p.out)
    IN  [cmds |-> p.cmds,
         uncaught |-> p.uncaught,
         gen  |-> IF p.uncaught \/ p.raised \/ p.out = {} THEN None
                  ELSE IF known # None THEN known
                  ELSE AnyVisualStudio(p.out)]

_detect_alternative_generator(run) ==
    LET p == ProbeGenerators(run)
        found == FirstIn(alternatives, p.out)
    IN  [cmds |-> p.cmds,
         uncaught |-> p.uncaught,
         gen  |-> IF p.uncaught THEN None
                  ELSE IF found # None THEN found ELSE "MinGW Makefiles"]

\* Lines 196-201: the '-A' flag of a Visual Studio generator.
ArchFlag(g, arch) ==
    IF ~IsVisualStudio(g) THEN << >>
    ELSE IF arch = "x86_64" THEN << "-A", "x64" >>
    ELSE IF arch = "x86" THEN << "-A", "Win32" >>
    ELSE << >>

\* Lines 183-190 without warnings.warn: the fallback is taken silently.
WindowsAutoDetectSilentFallback(env) ==
    LET uncaught(cmds) ==
            [gen |-> None, cmds |-> cmds, warnings |-> {}, uncaught |-> TRUE]
        detected(gen, cmds, warns) ==
            [gen |-> gen, cmds |-> cmds, warnings |-> warns, uncaught |-> FALSE]
    IN  IF _is_msys_environment(env.environ)
        THEN LET alt == _detect_alternative_generator(env.alt)
             IN  IF alt.uncaught THEN uncaught(alt.cmds)
                 ELSE detected(alt.gen, alt.cmds,
                               IF IsMinGW(alt.gen) THEN {}
                               ELSE {Warning("msys-no-mingw", alt.gen)})
        ELSE LET vs == _detect_visual_studio_generator(env.vs)
             IN  IF vs.uncaught THEN uncaught(vs.cmds)
                 ELSE IF vs.gen # None THEN detected(vs.gen, vs.cmds, {})
                 ELSE LET alt == _detect_alternative_generator(env.alt)
                      IN  IF alt.uncaught THEN uncaught(vs.cmds \o alt.cmds)
                          ELSE detected(alt.gen, vs.cmds \o alt.cmds,
                                        {})

\* Lines 167-190: native Windows build without --generator: the generator
\* picked, the warnings and the probes run.
WindowsAutoDetect(env) ==
    LET uncaught(cmds) ==
            [gen |-> None, cmds |-> cmds, warnings |-> {}, uncaught |-> TRUE]
        detected(gen, cmds, warns) ==
            [gen |-> gen, cmds |-> cmds, warnings |-> warns, uncaught |-> FALSE]
    IN  IF _is_msys_environment(env.environ)
        THEN LET alt == _detect_alternative_generator(env.alt)
             IN  IF alt.uncaught THEN uncaught(alt.cmds)
                 ELSE detected(alt.gen, alt.cmds,
                               IF IsMinGW(alt.gen) THEN {}
                               ELSE {Warning("msys-no-mingw", alt.gen)})
        ELSE LET vs == _detect_visual_studio_generator(env.vs)
             IN  IF vs.uncaught THEN uncaught(vs.cmds)
                 ELSE IF vs.gen # None THEN detected(vs.gen, vs.cmds, {})
                 ELSE LET alt == _detect_alternative_generator(env.alt)
                      IN  IF alt.uncaught THEN uncaught(vs.cmds \o alt.cmds)
                          ELSE detected(alt.gen, vs.cmds \o alt.cmds,
                                        {Warning("vs-not-found", alt.gen)})

\* Lines 147-150 with kwargs.get("generator", "MinGW Makefiles"): a generator
\* is emitted although none was supplied.
WindowsCrossToolchainDefaultsGenerator(generator, toolchain) ==
    LET g == IF generator # None THEN generator ELSE "MinGW Makefiles"
    IN  Resolved(<< "-DCMAKE_TOOLCHAIN_FILE=" \o toolchain, "-G", g >>, g, {}, << >>)

\* Lines 144-150: cross-compilation with a toolchain file.
WindowsCrossToolchain(generator, toolchain) ==
    Resolved(<< "-DCMAKE_TOOLCHAIN_FILE=" \o toolchain >>
                 \o (IF generator # None THEN << "-G", generator >> ELSE << >>),
             generator, {}, << >>)

\* Lines 151-162 with the policy of macos.py: a missing toolchain raises.
WindowsCrossNoToolchainRaises(generator) ==
    Raised(Error("ValueError",
                 << "Cross-compiling for Windows from non-Windows system requires --toolchain." >>))

\* Lines 151-162: cross-compilation without one.
WindowsCrossNoToolchain(generator) ==
    LET g == IF generator # None THEN generator ELSE "MinGW Makefiles"
    IN  Resolved(<< "-G", g, "-DCMAKE_SYSTEM_NAME=Windows" >>, g,
                 {Warning("cross-no-toolchain", None)}, << >>)

\* Lines 163-206: the native build.
WindowsNative(arch, generator, env) ==
    IF generator # None
    THEN Resolved(<< "-G", generator >> \o ArchFlag(generator, arch),
                  generator, {}, << >>)
    ELSE LET d == WindowsAutoDetect(env)
         IN  IF d.uncaught
             THEN [Raised(Error("OSError", << "subprocess.run", "cmake" >>))
                      EXCEPT !.cmds = d.cmds]
             ELSE Resolved(<< "-G", d.gen >> \o ArchFlag(d.gen, arch),
                           d.gen, d.warnings, d.cmds)

WindowsGetCmakeArgs(host, arch, generator, toolchain, env) ==
    IF host # "win32"
    THEN IF toolchain # None
         THEN WindowsCrossToolchain(generator, toolchain)
         ELSE WindowsCrossNoToolchain(generator)
    ELSE WindowsNative(arch, generator, env)

\* --------------------------------------------------- platforms/linux.py

\* get_cmake_args with the toolchain test of android.py in front: the native
\* build asks for a toolchain file too.
LinuxGetCmakeArgsRequiresToolchain(host, toolchain) ==
    IF toolchain = None
    THEN Raised(Error("ValueError", << "Linux builds require --toolchain" >>))
    ELSE Resolved(<< "-DCMAKE_TOOLCHAIN_FILE=" \o toolchain >>, None, {}, << >>)

LinuxGetCmakeArgs(host, toolchain) ==
    IF host # "linux"
    THEN IF toolchain # None
         THEN Resolved(<< "-DCMAKE_TOOLCHAIN_FILE=" \o toolchain >>, None, {}, << >>)
         ELSE Resolved(<< "-DCMAKE_SYSTEM_NAME=Linux" >>, None,
                       {Warning("cross-no-toolchain", None)}, << >>)
    ELSE Resolved(<< >>, None, {}, << >>)

\* --------------------------------------------------- platforms/macos.py

OsxArchitectures(arch) ==
    IF arch = "arm64" THEN << "-DCMAKE_OSX_ARCHITECTURES=arm64" >>
    ELSE IF arch = "x86_64" THEN << "-DCMAKE_OSX_ARCHITECTURES=x86_64" >>
    ELSE << >>

MacOSGetCmakeArgs(host, arch, toolchain) ==
    IF host # "darwin"
    THEN IF toolchain # None
         THEN Resolved(<< "-DCMAKE_TOOLCHAIN_FILE=" \o toolchain >>, None, {}, << >>)
         ELSE Raised(Error("ValueError",
                  << "Cross-compiling for macOS from non-macOS system requires --toolchain." >>))
    ELSE Resolved(OsxArchitectures(arch), None, {}, << >>)

\* ------------------------------------------------- platforms/android.py

AndroidAbi(arch) ==
    IF arch \in {"arm64-v8a", "armeabi-v7a", "x86_64", "x86"} THEN arch ELSE "arm64-v8a"

\* Lines 15-17 without the test: the toolchain flag is built from None.
AndroidGetCmakeArgsUnchecked(arch, toolchain) ==
    Resolved(<< "-DCMAKE_TOOLCHAIN_FILE=" \o toolchain,
                "-DANDROID_ABI=" \o AndroidAbi(arch),
                "-DANDROID_PLATFORM=android-21" >>, None, {}, << >>)

AndroidGetCmakeArgs(arch, toolchain) ==
    IF toolchain = None
    THEN Raised(Error("ValueError", << "Android builds require --toolchain" >>))
    ELSE Resolved(<< "-DCMAKE_TOOLCHAIN_FILE=" \o toolchain,
                     "-DANDROID_ABI=" \o AndroidAbi(arch),
                     "-DANDROID_PLATFORM=android-21" >>, None, {}, << >>)

\* ----------------------------------------------------- platforms/ios.py

IOSGetCmakeArgs(host, arch, env) ==
    IF host # "darwin"
    THEN Raised(Error("ValueError", << "iOS builds can only be performed on macOS." >>))
    ELSE Resolved(<< "-DCMAKE_SYSTEM_NAME=iOS" >> \o OsxArchitectures(arch)
                      \o << IF env.xcrun THEN "-DCMAKE_OSX_SYSROOT=<sdk path>"
                            ELSE "-DCMAKE_OSX_SYSROOT=iphoneos" >>,
                  None, {}, << "xcrun" >>)

\* builder.get_cmake_args(**kwargs), dispatched on the builder's class.
GetCmakeArgs(host, plat, arch, generator, toolchain, env) ==
    CASE plat = "windows" -> WindowsGetCmakeArgs(host, arch, generator, toolchain, env)
      [] plat = "linux"   -> LinuxGetCmakeArgs(host, toolchain)
      [] plat = "macos"   -> MacOSGetCmakeArgs(host, arch, toolchain)
      [] plat = "android" -> AndroidGetCmakeArgs(arch, toolchain)
      [] plat = "ios"     -> IOSGetCmakeArgs(host, arch, env)

\* The probings that make a difference to a detector: a probe that is not
\* run has one outcome, and so has the stdout of a probe that did not exit 0.
CanonicalRuns ==
    { r \in ProbeRuns :
        /\ (r.primary # "raise" => r.secondary = "ok")
        /\ (r.primary # "ok" /\ ~(r.primary = "raise" /\ r.secondary = "ok")
               => r.gens = {}) }

\* The environments that make a difference to a native Windows call without
\* --generator: a detector that is not called has one probing.
ProbeEnvs ==
    { e \in { [environ |-> o, vs |-> v, alt |-> a, xcrun |-> TRUE] :
                 o \in Environs, v \in CanonicalRuns, a \in CanonicalRuns } :
        /\ (_is_msys_environment(e.environ) => e.vs = NoProbe)
        /\ (~_is_msys_environment(e.environ)
               /\ (_detect_visual_studio_generator(e.vs).gen # None
                      \/ _detect_visual_studio_generator(e.vs).uncaught)
               => e.alt = NoProbe) }

RelevantEnvs(host, plat, generator) ==
    IF plat = "windows" /\ host = "win32" /\ generator = None
    THEN ProbeEnvs
    ELSE IF plat = "ios" /\ host = "darwin"
    THEN {NoEnv, [NoEnv EXCEPT !.xcrun = FALSE]}
    ELSE {NoEnv}

\* ------------------------------------------------------ the file system

LIBRARY_NAMES ==
    [p \in Platforms |->
        CASE p = "linux"   -> "libmlogger_linux.so"
          [] p = "windows" -> "mlogger_win.dll"
          [] p = "macos"   -> "libmlogger_macos.dylib"
          [] p = "android" -> "libmlogger_android.so"
          [] p = "ios"     -> "libmlogger_ios.a"]

BuildDirPath == "build_dir"
CachePath == "CMakeCache.txt"
FilesPath == "CMakeFiles"

\* file_path.with_suffix(file_path.suffix + ".old") and
\* dir_path.with_name(dir_path.name + ".old"): the rename-aside name.
OldName(path) == path \o ".old"

Paths ==
    {BuildDirPath, CachePath, OldName(CachePath), FilesPath, OldName(FilesPath)}
        \cup {LIBRARY_NAMES[p] : p \in Platforms}
        \cup {OldName(LIBRARY_NAMES[p]) : p \in Platforms}

Absent == "absent"
Dir == "dir"

\* What a CMakeCache.txt may hold after "CMAKE_GENERATOR:INTERNAL=": nothing
\* (no such line), or the rest of the line.
NoGeneratorLine == "# no CMAKE_GENERATOR:INTERNAL line"
CacheTexts ==
    {NoGeneratorLine, "Ninja", "Ninja  ", "Visual Studio 17 2022", "MinGW Makefiles"}

\* str.strip() over the cache texts of the model.
Strip(text) == IF text = "Ninja  " THEN "Ninja" ELSE text

\* re.search(r"CMAKE_GENERATOR:INTERNAL=(.+)", text), then match.group(1).strip().
ParseCachedGenerator(text) == IF text = NoGeneratorLine THEN None ELSE Strip(text)

Exists(f, path) == f[path] # Absent

\* ------------------------------------------------------------ the state

VARIABLES
    host,               \* sys.platform
    platform,           \* args.platform
    arch,               \* args.arch
    generatorArg,       \* configure_cmake: kwargs.get("generator")
    toolchainArg,       \* configure_cmake: kwargs.get("toolchain")
    clean,              \* configure_cmake: clean
    fs,                 \* the files and directories the scripts touch
    pc,                 \* where the run of main is
    exitStatus,         \* "running", or the exit status of the process
    error,              \* the exception main's `except Exception` caught
    started,            \* the pipeline steps started, in order
    completed,          \* the pipeline steps that returned normally
    skipped,            \* the pipeline steps skipped by --skip-tests / --skip-copy
    env,                \* what the get_cmake_args call saw
    probes,             \* the probe subprocesses the get_cmake_args call ran
    cmake_args,         \* configure_cmake: cmake_args
    current_generator,  \* configure_cmake: current_generator
    builderGenerator,   \* WindowsBuilder._generator
    warnings,           \* the warnings the get_cmake_args call emitted
    cc,                 \* the call of check_and_clean_cmake_cache: whether the read
                        \* worked, cached_generator, the files at entry, the result
    cl,                 \* the call of _clean_cmake_cache_files: the caller, the files
                        \* at entry, the two results
    rm,                 \* the call of a removal helper: its arguments, the loop
                        \* counter, and what it did so far (deletes, sleeps, rename)
    cp,                 \* copy_library_to_unity: the copy loop
    build,              \* build_project: os.environ's JOBS and build_cmd
    tests,              \* run_tests: the filter, the executables selected, present,
                        \* run and failed, and the one that could not be started
    ck                  \* the checker scripts: the environment they look at, the
                        \* lists of the three checker objects, the calls made

vars ==
    << host, platform, arch, generatorArg, toolchainArg, clean, fs, pc, exitStatus, error,
       started, completed, skipped, env, probes, cmake_args, current_generator,
       builderGenerator, warnings, cc, cl, rm, cp, build, tests, ck >>

inputs == << host, platform, arch, generatorArg, toolchainArg, clean >>
resolved == << env, probes, cmake_args, current_generator, builderGenerator, warnings >>
steps == << started, completed, skipped >>
outcome == << exitStatus, error >>

\* max_retries of the two call sites of the removal helpers, and of the copy loop.
CleanMaxRetries == 3
TargetMaxRetries == 5
CopyMaxRetries == 3

NoCc == [ret |-> "not called", readable |-> TRUE, cached |-> None, entry |-> << >>]
NoCl == [caller |-> "not called", cache_removed |-> "pending", dir_removed |-> "pending",
         entry |-> << >>]
NoRm == [kind |-> "none", path |-> "none", max |-> 0, attempt |-> 0, phase |-> "idle",
         trace |-> << >>, ret |-> "pending", caller |-> "none"]
NoCp == [attempt |-> 0, copies |-> 0, trace |-> << >>]
NoBuild == [JOBS |-> None, build_cmd |-> << >>]
NoTests == [called |-> FALSE, test_filter |-> None, selected |-> << >>, present |-> {},
            ran |-> << >>, failed |-> {}, launch |-> None, all_passed |-> TRUE]
\* No checker script is running.
NoCk == [program |-> "none", system |-> "Linux", findings |-> << >>,
         self |-> [errors |-> << >>, warnings |-> << >>, info |-> << >>],
         calls |-> << >>, changes |-> 0, exit |-> "running"]

\* The file system with the build directory (None: it does not exist yet)
\* holding `cache` and `files`, and a backup directory `backup` left by an
\* earlier rename aside.
MakeFs(cache, files, backup) ==
    [p \in Paths |->
        CASE p = BuildDirPath        -> IF cache = None THEN Absent ELSE Dir
          [] p = CachePath           -> IF cache = None THEN Absent ELSE cache
          [] p = FilesPath           -> IF cache = None THEN Absent ELSE files
          [] p = OldName(FilesPath)  ->
                IF cache = None \/ files = Absent THEN Absent ELSE backup
          [] OTHER                   -> Absent]

\* A build directory as an earlier run can have left it.  The staging
\* directory belongs to the Unity project: what it holds is found when
\* copy_library_to_unity looks at it.
InitialFs ==
    { MakeFs(c, f, b) :
        c \in {None, Absent} \cup CacheTexts,
        f \in {Absent, Dir},
        b \in {Absent, Dir} }

Init ==
    /\ host \in Hosts
    /\ platform \in Platforms
    /\ arch \in Archs
    /\ generatorArg \in GeneratorArgs
    /\ toolchainArg \in ToolchainArgs
    /\ clean \in BOOLEAN
    /\ fs \in InitialFs
    /\ pc = "configure"
    /\ exitStatus = "running"
    /\ error = NoError
    /\ started = << >>
    /\ completed = << >>
    /\ skipped = {}
    /\ env = NoEnv
    /\ probes = << >>
    /\ cmake_args = << >>
    /\ current_generator = None
    /\ builderGenerator = None
    /\ warnings = {}
    /\ cc = NoCc
    /\ cl = NoCl
    /\ rm = NoRm
    /\ cp = NoCp
    /\ build = NoBuild
    /\ tests = NoTests
    /\ ck = NoCk

\* ------------------------------------------------------------- helpers

\* The elements of a list.
Range(t) == {t[i] : i \in 1..Len(t)}

\* Python truthiness of an optional string.
Truthy(s) == s # None /\ s # ""

\* configure_cmake: the value after the first "-G" that has a successor.
GeneratorOf(args) ==
    LET idx == {i \in 1..Len(args) : args[i] = "-G" /\ i < Len(args)}
    IN  IF idx = {} THEN None
        ELSE args[(CHOOSE i \in idx : \A j \in idx : i <= j) + 1]

\* main's `except Exception as e`: the step raised e, the process exits with 1.
StepRaised(e) ==
    /\ pc' = "exit"
    /\ exitStatus' = "exit 1"
    /\ error' = e

\* The first iteration of a removal helper.
RmStart(kind, path, max, caller) ==
    [kind |-> kind, path |-> path, max |-> max, attempt |-> 0, phase |-> "loop",
     trace |-> << >>, ret |-> "pending", caller |-> caller]

\* _clean_cmake_cache_files is entered: it first calls _remove_file_with_retry.
StartClean(caller) ==
    /\ cl' = [caller |-> caller, cache_removed |-> "pending", dir_removed |-> "pending",
              entry |-> fs]
    /\ rm' = RmStart("file", CachePath, CleanMaxRetries, "clean")
    /\ pc' = "rm"

\* ------------------------------------------------------- configure_cmake

\* Lines 195-205 with build_dir.mkdir after get_cmake_args: a resolver that
\* raises leaves no build directory behind.
ConfigureStartResolvesFirst ==
    /\ pc = "configure"
    /\ started' = Append(started, "configure")
    /\ \E e \in RelevantEnvs(host, platform, generatorArg) :
          LET r == GetCmakeArgs(host, platform, arch, generatorArg, toolchainArg, e)
          IN  IF r.raised
              THEN /\ StepRaised(r.error)
                   /\ fs' = fs
                   /\ probes' = r.cmds
                   /\ warnings' = r.warnings
                   /\ UNCHANGED << env, cmake_args, current_generator, builderGenerator >>
              ELSE /\ pc' = "resolved"
                   /\ fs' = [fs EXCEPT ![BuildDirPath] = Dir]
                   /\ UNCHANGED outcome
                   /\ env' = e
                   /\ probes' = r.cmds
                   /\ cmake_args' = r.args
                   /\ current_generator' = GeneratorOf(r.args)
                   /\ builderGenerator' = r.generator
                   /\ warnings' = r.warnings
    /\ UNCHANGED << ck, build, tests, inputs, completed, skipped, cc, cl, rm, cp >>

\* Lines 195-205: mkdir of the build directory, builder.get_cmake_args and the
\* search for "-G".
ConfigureStart ==
    /\ pc = "configure"
    /\ started' = Append(started, "configure")
    /\ fs' = [fs EXCEPT ![BuildDirPath] = Dir]
    /\ \E e \in RelevantEnvs(host, platform, generatorArg) :
          LET r == GetCmakeArgs(host, platform, arch, generatorArg, toolchainArg, e)
          IN  IF r.raised
              THEN /\ StepRaised(r.error)
                   /\ probes' = r.cmds
                   /\ warnings' = r.warnings
                   /\ UNCHANGED << env, cmake_args, current_generator, builderGenerator >>
              ELSE /\ pc' = "resolved"
                   /\ UNCHANGED outcome
                   /\ env' = e
                   /\ probes' = r.cmds
                   /\ cmake_args' = r.args
                   /\ current_generator' = GeneratorOf(r.args)
                   /\ builderGenerator' = r.generator
                   /\ warnings' = r.warnings
    /\ UNCHANGED << ck, build, tests, inputs, completed, skipped, cc, cl, rm, cp >>

\* The record of the get_cmake_args call (what it saw, ran and warned) is
\* held until configure_cmake has looked at the arguments returned.
ResolverReturned ==
    /\ env' = NoEnv
    /\ probes' = << >>
    /\ warnings' = {}

\* Lines 207-214 without `if current_generator:`: --clean cleans although no
\* generator was resolved.
ConfigureNoGeneratorCleans ==
    /\ pc = "resolved"
    /\ ~Truthy(current_generator)
    /\ IF clean /\ (Exists(fs, CachePath) \/ Exists(fs, FilesPath))
       THEN StartClean("forced")
       ELSE pc' = "cmake" /\ UNCHANGED << cl, rm >>
    /\ ResolverReturned
    /\ UNCHANGED << ck, build, tests, inputs, fs, outcome, steps, cmake_args, current_generator,
                    builderGenerator, cc, cp >>

\* Lines 207-216, no generator resolved: neither clean nor check.
ConfigureNoGenerator ==
    /\ pc = "resolved"
    /\ ~Truthy(current_generator)
    /\ pc' = "cmake"
    /\ ResolverReturned
    /\ UNCHANGED << ck, build, tests, inputs, fs, outcome, steps, cmake_args, current_generator,
                    builderGenerator, cc, cl, rm, cp >>

\* Lines 208-214 without the test of `clean`: every configure cleans.
ConfigureForceCleanAlways ==
    /\ pc = "resolved"
    /\ Truthy(current_generator)
    /\ IF Exists(fs, CachePath) \/ Exists(fs, FilesPath)
       THEN StartClean("forced")
       ELSE pc' = "cmake" /\ UNCHANGED << cl, rm >>
    /\ ResolverReturned
    /\ UNCHANGED << ck, build, tests, inputs, fs, outcome, steps, cmake_args, current_generator,
                    builderGenerator, cc, cp >>

\* Lines 208-214: --clean.
ConfigureForceClean ==
    /\ pc = "resolved"
    /\ Truthy(current_generator)
    /\ clean
    /\ IF Exists(fs, CachePath) \/ Exists(fs, FilesPath)
       THEN StartClean("forced")
       ELSE pc' = "cmake" /\ UNCHANGED << cl, rm >>
    /\ ResolverReturned
    /\ UNCHANGED << ck, build, tests, inputs, fs, outcome, steps, cmake_args, current_generator,
                    builderGenerator, cc, cp >>

\* Line 216 without the call: cmake is started on whatever cache is there.
ConfigureCheckSkipped ==
    /\ pc = "resolved"
    /\ Truthy(current_generator)
    /\ ~clean
    /\ pc' = "cmake"
    /\ ResolverReturned
    /\ UNCHANGED << ck, build, tests, inputs, fs, outcome, steps, cmake_args, current_generator,
                    builderGenerator, cc, cl, rm, cp >>

\* Line 216: check_and_clean_cmake_cache is called.
ConfigureCheck ==
    /\ pc = "resolved"
    /\ Truthy(current_generator)
    /\ ~clean
    /\ pc' = "check"
    /\ ResolverReturned
    /\ UNCHANGED << ck, build, tests, inputs, fs, outcome, steps, cmake_args, current_generator,
                    builderGenerator, cc, cl, rm, cp >>

\* ------------------------------------------- check_and_clean_cmake_cache

\* Lines 145-147 without the early return: the cleanup runs on a directory
\* that holds no cache.
CheckNoCacheFallsThrough ==
    /\ pc = "check"
    /\ ~Exists(fs, CachePath)
    /\ cc' = [ret |-> "pending", readable |-> TRUE, cached |-> None, entry |-> fs]
    /\ StartClean("check")
    /\ UNCHANGED << ck, build, tests, inputs, fs, outcome, steps, resolved, cp >>

\* Lines 145-147: no CMakeCache.txt.
CheckNoCache ==
    /\ pc = "check"
    /\ ~Exists(fs, CachePath)
    /\ cc' = [ret |-> "False", readable |-> TRUE, cached |-> None, entry |-> fs]
    /\ pc' = "cmake"
    /\ UNCHANGED << ck, build, tests, inputs, fs, outcome, steps, resolved, cl, rm, cp >>

\* Line 159 with the comparison lost: every existing cache is cleaned.
IsMismatchAlways(cached, current) == TRUE

\* Line 159 without `cached_generator is None or`, an unparsed cache taken
\* for nothing to compare.
IsMismatchIgnoresUnparsed(cached, current) == cached # None /\ cached # current

\* The comparison of line 159.
IsMismatch(cached, current) == cached = None \/ cached # current

\* Lines 149-166: the file is read (the read may raise OSError or
\* UnicodeDecodeError, which leaves cached_generator None) and compared.
CheckCache(readable) ==
    /\ pc = "check"
    /\ Exists(fs, CachePath)
    /\ LET cached == IF readable THEN ParseCachedGenerator(fs[CachePath]) ELSE None
       IN  IF IsMismatch(cached, current_generator)
           THEN /\ cc' = [ret |-> "pending", readable |-> readable, cached |-> cached,
                           entry |-> fs]
                /\ StartClean("check")
           ELSE /\ cc' = [ret |-> "False", readable |-> readable, cached |-> cached,
                           entry |-> fs]
                /\ pc' = "cmake"
                /\ UNCHANGED << cl, rm >>
    /\ UNCHANGED << ck, build, tests, inputs, fs, outcome, steps, resolved, cp >>

CheckCacheRead == CheckCache(TRUE)

CheckCacheUnreadable == CheckCache(FALSE)

\* ------------------- _remove_file_with_retry / _remove_directory_with_retry

RmRunning == pc = "rm" /\ rm.phase = "loop"

\* `if path.exists()` is false: return True.
RmNothingToRemove ==
    /\ RmRunning
    /\ ~Exists(fs, rm.path)
    /\ rm' = [rm EXCEPT !.phase = "returned", !.ret = "True"]
    /\ UNCHANGED << ck, build, tests, inputs, fs, pc, outcome, steps, resolved, cc, cl, cp >>

\* unlink / rmtree succeeds: return True.
RmDeleted ==
    /\ RmRunning
    /\ Exists(fs, rm.path)
    /\ fs' = [fs EXCEPT ![rm.path] = Absent]
    /\ rm' = [rm EXCEPT !.phase = "returned", !.ret = "True",
                        !.trace = Append(@, "delete ok")]
    /\ UNCHANGED << ck, build, tests, inputs, pc, outcome, steps, resolved, cc, cl, cp >>

\* Lines 108/128 with `attempt < max_retries`: a sleep and one more attempt
\* after the last one.
RmDeleteFailedRetryOffByOne ==
    /\ pc = "rm" /\ rm.phase = "loop"
    /\ Exists(fs, rm.path)
    /\ rm.attempt < rm.max
    /\ rm' = [rm EXCEPT !.attempt = @ + 1, !.trace = @ \o << "delete failed", "sleep" >>]
    /\ UNCHANGED << ck, build, tests, inputs, fs, pc, outcome, steps, resolved, cc, cl, cp >>

\* unlink / rmtree raises and attempt < max_retries - 1: sleep, next attempt.
RmDeleteFailedRetry ==
    /\ RmRunning
    /\ Exists(fs, rm.path)
    /\ rm.attempt < rm.max - 1
    /\ rm' = [rm EXCEPT !.attempt = @ + 1, !.trace = @ \o << "delete failed", "sleep" >>]
    /\ UNCHANGED << ck, build, tests, inputs, fs, pc, outcome, steps, resolved, cc, cl, cp >>

\* unlink / rmtree raises in the last attempt: go on to rename aside.
RmDeleteFailedLast ==
    /\ RmRunning
    /\ Exists(fs, rm.path)
    /\ ~(rm.attempt < rm.max - 1)
    /\ rm' = [rm EXCEPT !.phase = "rename", !.trace = Append(@, "delete failed")]
    /\ UNCHANGED << ck, build, tests, inputs, fs, pc, outcome, steps, resolved, cc, cl, cp >>

\* The rename aside succeeds (for a directory, after an existing backup was
\* removed): return True.
RmRenamed ==
    /\ pc = "rm" /\ rm.phase = "rename"
    /\ fs' = [fs EXCEPT ![OldName(rm.path)] = fs[rm.path], ![rm.path] = Absent]
    /\ rm' = [rm EXCEPT !.phase = "returned", !.ret = "True",
                        !.trace = Append(@, "rename ok")]
    /\ UNCHANGED << ck, build, tests, inputs, pc, outcome, steps, resolved, cc, cl, cp >>

\* The rename outside a try block: its OSError leaves the helper, and main.
RmRenameFailedRaises ==
    /\ pc = "rm" /\ rm.phase = "rename"
    /\ rm' = [rm EXCEPT !.phase = "returned", !.trace = Append(@, "rename failed")]
    /\ StepRaised(Error("OSError", << "rename", rm.path >>))
    /\ UNCHANGED << ck, build, tests, inputs, fs, steps, resolved, cc, cl, cp >>

\* Lines 114-115 with `return True` in the handler: a failed rename is
\* reported as a removal.
RmRenameFailedReturnsTrue ==
    /\ pc = "rm" /\ rm.phase = "rename"
    /\ fs' = IF rm.kind = "dir" THEN [fs EXCEPT ![OldName(rm.path)] = Absent] ELSE fs
    /\ rm' = [rm EXCEPT !.phase = "returned", !.ret = "True",
                        !.trace = Append(@, "rename failed")]
    /\ UNCHANGED << ck, build, tests, inputs, pc, outcome, steps, resolved, cc, cl, cp >>

\* The rename raises (for a directory, an existing backup is gone by then):
\* return False.
RmRenameFailed ==
    /\ pc = "rm" /\ rm.phase = "rename"
    /\ fs' = IF rm.kind = "dir" THEN [fs EXCEPT ![OldName(rm.path)] = Absent] ELSE fs
    /\ rm' = [rm EXCEPT !.phase = "returned", !.ret = "False",
                        !.trace = Append(@, "rename failed")]
    /\ UNCHANGED << ck, build, tests, inputs, pc, outcome, steps, resolved, cc, cl, cp >>

\* Lines 133-134: removing the existing backup directory raises: return False
\* without a rename.
RmBackupRemoveFailed ==
    /\ pc = "rm" /\ rm.phase = "rename"
    /\ rm.kind = "dir"
    /\ Exists(fs, OldName(rm.path))
    /\ rm' = [rm EXCEPT !.phase = "returned", !.ret = "False",
                        !.trace = Append(@, "backup failed")]
    /\ UNCHANGED << ck, build, tests, inputs, fs, pc, outcome, steps, resolved, cc, cl, cp >>

\* ---------------------------------------------- _clean_cmake_cache_files

\* Line 178 returned; line 179 calls _remove_directory_with_retry.
CleanFileReturned ==
    /\ pc = "rm" /\ rm.phase = "returned"
    /\ rm.caller = "clean" /\ rm.kind = "file"
    /\ cl' = [cl EXCEPT !.cache_removed = rm.ret]
    /\ rm' = RmStart("dir", FilesPath, CleanMaxRetries, "clean")
    /\ UNCHANGED << ck, build, tests, inputs, fs, pc, outcome, steps, resolved, cc, cp >>

\* Line 179 returned; _clean_cmake_cache_files returns, and so does
\* check_and_clean_cmake_cache (True) when it was the caller.
CleanDirReturned ==
    /\ pc = "rm" /\ rm.phase = "returned"
    /\ rm.caller = "clean" /\ rm.kind = "dir"
    /\ cl' = [cl EXCEPT !.dir_removed = rm.ret]
    /\ cc' = IF cl.caller = "check" THEN [cc EXCEPT !.ret = "True"] ELSE cc
    /\ rm' = NoRm
    /\ pc' = "cmake"
    /\ UNCHANGED << ck, build, tests, inputs, fs, outcome, steps, resolved, cp >>

\* Lines 218-247: the cmake subprocess; a non-zero exit status raises.
\* configure_cmake returns, and its locals with it.
RunCmake(ok) ==
    /\ pc = "cmake"
    /\ IF ok
       THEN /\ pc' = "build"
            /\ UNCHANGED outcome
            /\ completed' = Append(completed, "configure")
       ELSE /\ StepRaised(Error("CalledProcessError", << "cmake" >>))
            /\ completed' = completed
    /\ generatorArg' = None
    /\ toolchainArg' = None
    /\ clean' = FALSE
    /\ cmake_args' = << >>
    /\ current_generator' = None
    /\ cc' = NoCc
    /\ cl' = NoCl
    /\ UNCHANGED << ck, build, tests, host, platform, arch, fs, started, skipped, env, probes,
                    builderGenerator, warnings, rm, cp >>

CmakeSucceeded == RunCmake(TRUE)

CmakeFailed == RunCmake(FALSE)

\* ---------------------------------------------------------- build_project

\* os.environ.get("JOBS"): unset, or the job count the user exported.
JobsValues == {None, "8"}

\* WindowsBuilder.get_build_args with the test of the generator dropped.
get_build_args_always_config(plat, generator, JOBS) ==
    IF plat = "windows"
    THEN << "--config", "Release" >>
    ELSE << "-j", IF JOBS = None THEN "4" ELSE JOBS >>

\* get_build_args of the five builders: WindowsBuilder looks at the generator
\* get_cmake_args stored (windows.py 210-217), the others at JOBS
\* (linux.py 40-44, macos.py 38-42, android.py 33-37, ios.py 52-56).
get_build_args(plat, generator, JOBS) ==
    IF plat = "windows"
    THEN IF generator # None /\ IsVisualStudio(generator)
         THEN << "--config", "Release" >>
         ELSE << >>
    ELSE << "-j", IF JOBS = None THEN "4" ELSE JOBS >>

\* Lines 257-258: build_cmd.
BuildCmd(JOBS) ==
    << "cmake", "--build", "." >> \o get_build_args(platform, builderGenerator, JOBS)

\* build_project with subprocess.run(check=False): a failed build goes on.
BuildProjectContinues(ok) ==
    /\ pc = "build"
    /\ started' = Append(started, "build")
    /\ pc' = "test"
    /\ UNCHANGED outcome
    /\ completed' = IF Exists(fs, BuildDirPath) /\ ok
                     THEN Append(completed, "build") ELSE completed
    /\ \E j \in JobsValues :
          build' = IF Exists(fs, BuildDirPath)
                   THEN [JOBS |-> j, build_cmd |-> BuildCmd(j)]
                   ELSE [JOBS |-> j, build_cmd |-> << >>]
    /\ UNCHANGED << ck, tests, inputs, fs, skipped, resolved, cc, cl, rm, cp >>

\* Lines 250-277: the build directory must exist; the build subprocess may
\* exit non-zero.
BuildProject(ok) ==
    /\ pc = "build"
    /\ started' = Append(started, "build")
    /\ IF Exists(fs, BuildDirPath) /\ ok
       THEN /\ pc' = "test"
            /\ UNCHANGED outcome
            /\ completed' = Append(completed, "build")
       ELSE /\ StepRaised(IF Exists(fs, BuildDirPath)
                            THEN Error("CalledProcessError", << "cmake", "--build", "." >>)
                            ELSE Error("ValueError",
                                       << "Build directory does not exist: ", BuildDirPath >>))
            /\ completed' = completed
    /\ \E j \in JobsValues :
          build' = IF Exists(fs, BuildDirPath)
                   THEN [JOBS |-> j, build_cmd |-> BuildCmd(j)]
                   ELSE [JOBS |-> j, build_cmd |-> << >>]
    /\ UNCHANGED << ck, tests, inputs, fs, skipped, resolved, cc, cl, rm, cp >>

BuildSucceeded == BuildProject(TRUE)

BuildFailed == BuildProject(FALSE)

\* -------------------------------------------------------------- run_tests

\* IOSBuilder.can_run_tests is False; the base class returns True.
can_run_tests(plat) == plat # "ios"

\* build.py 58-64, and base.py 27-29: no builder overrides the list.
BASIC_TESTS == << "test_mlogger", "test_simple", "test_c_interface" >>
ENHANCED_TESTS == << "test_boundary", "test_error_handling", "test_stress", "test_memory" >>
get_test_executables == << "test_mlogger", "test_simple", "test_c_interface" >>

\* --test-filter: none, one that matches test_simple in another case, one
\* that matches no test.
TestFilters == {None, "SIMPLE", "zzz"}

\* What happens to one test executable: it is not in bin/, it exits 0, it
\* exits non-zero (CalledProcessError), or subprocess.run cannot start it
\* (OSError: not executable, or built for another system).
TestOutcomes == {"missing", "passed", "failed", "launch error"}

\* [t for t in seq if keep(t)]
RECURSIVE Filtered(_, _)
Filtered(seq, keep) ==
    IF seq = << >> THEN << >>
    ELSE (IF Head(seq) \in keep THEN << Head(seq) >> ELSE << >>) \o Filtered(Tail(seq), keep)

\* Lines 301-302: the executables the filter keeps.
Selected(test_filter) ==
    IF ~Truthy(test_filter) THEN get_test_executables
    ELSE Filtered(get_test_executables,
                  {t \in Range(get_test_executables) :
                      Occurs(Lower(test_filter), Lower(t))})

\* Lines 307-310: the two categories in the order the loop visits them.
Categorised(test_executables) ==
    Filtered(test_executables, Range(BASIC_TESTS))
        \o Filtered(test_executables, Range(ENHANCED_TESTS))

\* Lines 316-356: the loop over the tests.  A missing executable is skipped,
\* CalledProcessError clears all_passed and the loop goes on, any other
\* exception of subprocess.run leaves the loop and run_tests.
RECURSIVE TestLoop(_, _, _)
TestLoop(todo, result_of, acc) ==
    IF todo = << >> THEN acc
    ELSE LET t == Head(todo)
         IN  CASE result_of[t] = "missing" -> TestLoop(Tail(todo), result_of, acc)
               [] result_of[t] = "passed" ->
                    TestLoop(Tail(todo), result_of,
                             [acc EXCEPT !.ran = Append(@, t)])
               [] result_of[t] = "failed" ->
                    TestLoop(Tail(todo), result_of,
                             [acc EXCEPT !.ran = Append(@, t),
                                         !.failed = @ \cup {t}, !.all_passed = FALSE])
               [] OTHER ->
                    [acc EXCEPT !.ran = Append(@, t), !.launch = t]

\* Lines 287-363: run_tests for a builder, a filter and what becomes of each
\* executable.  The record keeps the filter, the executables selected, those
\* of them that are in bin/, those run (in order), those that exited
\* non-zero, and the one subprocess.run could not start.
run_tests(plat, test_filter, result_of) ==
    IF ~can_run_tests(plat)
    THEN [NoTests EXCEPT !.called = TRUE]
    ELSE LET test_executables == Selected(test_filter)
             entry == [NoTests EXCEPT !.called = TRUE, !.test_filter = test_filter,
                                      !.selected = test_executables]
         IN  IF Truthy(test_filter) /\ test_executables = << >>
             THEN entry
             ELSE TestLoop(Categorised(test_executables), result_of,
                           [entry EXCEPT !.present =
                               {t \in Range(test_executables) : result_of[t] # "missing"}])

\* What run_tests can come to for each builder: every filter, and every
\* combination of what becomes of the executables.
RunTestsResults ==
    [plat \in Platforms |->
        { run_tests(plat, test_filter, result_of) :
            test_filter \in TestFilters,
            result_of \in [Range(get_test_executables) -> TestOutcomes] }]

\* main, lines 516-525: --skip-tests.
TestsSkipped ==
    /\ pc = "test"
    /\ skipped' = skipped \cup {"test"}
    /\ pc' = "copy"
    /\ build' = NoBuild
    /\ UNCHANGED << ck, tests, inputs, fs, outcome, started, completed, resolved, cc, cl, rm, cp >>

\* run_tests, by the way it ends: "passed" returns (also for a builder that
\* cannot run tests and for a filter without a match), "failed" raises
\* RuntimeError at line 361, "launch error" lets the exception of
\* subprocess.run through.
RunTests(ending) ==
    /\ pc = "test"
    /\ started' = Append(started, "test")
    /\ build' = NoBuild
    /\ \E r \in RunTestsResults[platform] :
              /\ tests' = r
              /\ CASE ending = "launch error" ->
                        /\ r.launch # None
                        /\ StepRaised(Error("OSError", << "subprocess.run", r.launch >>))
                        /\ completed' = completed
                   [] ending = "failed" ->
                        /\ r.launch = None /\ ~r.all_passed
                        /\ StepRaised(Error("RuntimeError",
                                             << "Some tests failed for ", platform, "-", arch >>))
                        /\ completed' = completed
                   [] OTHER ->
                        /\ r.launch = None /\ r.all_passed
                        /\ pc' = "copy"
                        /\ UNCHANGED outcome
                        /\ completed' = Append(completed, "test")
    /\ UNCHANGED << ck, inputs, fs, skipped, resolved, cc, cl, rm, cp >>

TestsPassed == RunTests("passed")

TestsFailed == RunTests("failed")

TestsLaunchFailed == RunTests("launch error")

\* --------------------------------------------------- copy_library_to_unity

TargetPath == LIBRARY_NAMES[platform]

\* main, lines 527-530: --skip-copy.
CopySkipped ==
    /\ pc = "copy"
    /\ skipped' = skipped \cup {"copy"}
    /\ pc' = "finish"
    /\ tests' = NoTests
    /\ UNCHANGED << ck, build, inputs, fs, outcome, started, completed, resolved, cc, cl, rm, cp >>

\* Lines 388-392: _find_library_path raises FileNotFoundError.
CopyLibraryNotFound ==
    /\ pc = "copy"
    /\ started' = Append(started, "copy")
    /\ StepRaised(Error("FileNotFoundError",
                        << "Library file not found: ", LIBRARY_NAMES[platform] >>))
    /\ tests' = NoTests
    /\ UNCHANGED << ck, build, inputs, fs, completed, skipped, resolved, cc, cl, rm, cp >>

\* Lines 388-415: the library is found; the staging directory holds a
\* library of an earlier run or none, and an existing target is removed first.
CopyStart ==
    /\ pc = "copy"
    /\ started' = Append(started, "copy")
    /\ \E staged \in {Absent, "old library"} :
          /\ fs' = [fs EXCEPT ![TargetPath] = staged]
          /\ IF staged # Absent
             THEN /\ rm' = RmStart("file", TargetPath, TargetMaxRetries, "copy")
                  /\ pc' = "rm"
             ELSE /\ rm' = rm
                  /\ pc' = "copying"
    /\ tests' = NoTests
    /\ UNCHANGED << ck, build, inputs, outcome, completed, skipped, resolved, cc, cl, cp >>

\* Lines 409-415: the message of the PermissionError raised for a target
\* that could not be removed.
RemoveFailedMessage(target_path) ==
    << "Failed to remove existing file: ", target_path,
       "This usually means the file is locked by Unity Editor." >>

\* Lines 431-437: the message of the PermissionError raised after the last
\* failed copy.
CopyFailedMessage(target_path) ==
    << "Failed to copy library after max_retries attempts", "Target: ", target_path,
       "This usually means the target file is locked by Unity Editor." >>

\* Lines 408-415 with the result of _remove_file_with_retry ignored: the copy
\* is tried onto the locked target.
CopyTargetRemoveReturnedIgnored ==
    /\ pc = "rm" /\ rm.phase = "returned"
    /\ rm.caller = "copy"
    /\ pc' = "copying"
    /\ UNCHANGED outcome
    /\ rm' = NoRm
    /\ UNCHANGED << ck, build, tests, inputs, fs, steps, resolved, cc, cl, cp >>

\* Lines 408-415: _remove_file_with_retry returned; False raises PermissionError.
CopyTargetRemoveReturned ==
    /\ pc = "rm" /\ rm.phase = "returned"
    /\ rm.caller = "copy"
    /\ IF rm.ret = "True"
       THEN pc' = "copying" /\ UNCHANGED outcome
       ELSE StepRaised(Error("PermissionError", RemoveFailedMessage(TargetPath)))
    /\ rm' = NoRm
    /\ UNCHANGED << ck, build, tests, inputs, fs, steps, resolved, cc, cl, cp >>

\* Lines 420-424: shutil.copy succeeds.
CopyAttemptSucceeded ==
    /\ pc = "copying"
    /\ fs' = [fs EXCEPT ![TargetPath] = "new library"]
    /\ cp' = [cp EXCEPT !.copies = @ + 1, !.trace = Append(@, "copy ok")]
    /\ completed' = Append(completed, "copy")
    /\ pc' = "finish"
    /\ UNCHANGED << ck, build, tests, inputs, outcome, started, skipped, resolved, cc, cl, rm >>

\* Lines 425-429 with `attempt < max_retries`: a sleep and one more attempt
\* after the last one.
CopyAttemptFailedRetryOffByOne ==
    /\ pc = "copying"
    /\ cp.attempt < CopyMaxRetries
    /\ cp' = [cp EXCEPT !.attempt = @ + 1, !.copies = @ + 1,
                        !.trace = @ \o << "copy failed", "sleep" >>]
    /\ UNCHANGED << ck, build, tests, inputs, fs, pc, outcome, steps, resolved, cc, cl, rm >>

\* Lines 425-429: shutil.copy raises OSError, attempt < max_retries - 1:
\* sleep, next attempt.
CopyAttemptFailedRetry ==
    /\ pc = "copying"
    /\ cp.attempt < CopyMaxRetries - 1
    /\ cp' = [cp EXCEPT !.attempt = @ + 1, !.copies = @ + 1,
                        !.trace = @ \o << "copy failed", "sleep" >>]
    /\ UNCHANGED << ck, build, tests, inputs, fs, pc, outcome, steps, resolved, cc, cl, rm >>

\* Lines 430-442: shutil.copy raises OSError in the last attempt.
CopyAttemptFailedLast ==
    /\ pc = "copying"
    /\ ~(cp.attempt < CopyMaxRetries - 1)
    /\ cp' = [cp EXCEPT !.copies = @ + 1, !.trace = Append(@, "copy failed")]
    /\ StepRaised(Error("PermissionError", CopyFailedMessage(TargetPath)))
    /\ UNCHANGED << ck, build, tests, inputs, fs, steps, resolved, cc, cl, rm >>

\* Lines 443-448: shutil.copy raises something that is no OSError: it is
\* raised again at once.
CopyAttemptRaisedOther ==
    /\ pc = "copying"
    /\ cp' = [cp EXCEPT !.copies = @ + 1, !.trace = Append(@, "copy raised")]
    /\ StepRaised(Error("Exception", << "shutil.copy" >>))
    /\ UNCHANGED << ck, build, tests, inputs, fs, steps, resolved, cc, cl, rm >>

\* main, lines 532-533: every step done.
Finish ==
    /\ pc = "finish"
    /\ pc' = "exit"
    /\ exitStatus' = "exit 0"
    /\ error' = error
    /\ UNCHANGED << ck, build, tests, inputs, fs, steps, resolved, cc, cl, rm, cp >>

\* ------------------------------------------------------ the specification

Next ==
    \/ ConfigureStart
    \/ ConfigureNoGenerator
    \/ ConfigureForceClean
    \/ ConfigureCheck
    \/ CheckNoCache
    \/ CheckCacheRead
    \/ CheckCacheUnreadable
    \/ RmNothingToRemove
    \/ RmDeleted
    \/ RmDeleteFailedRetry
    \/ RmDeleteFailedLast
    \/ RmRenamed
    \/ RmRenameFailed
    \/ RmBackupRemoveFailed
    \/ CleanFileReturned
    \/ CleanDirReturned
    \/ CmakeSucceeded
    \/ CmakeFailed
    \/ BuildSucceeded
    \/ BuildFailed
    \/ TestsSkipped
    \/ TestsPassed
    \/ TestsFailed
    \/ TestsLaunchFailed
    \/ CopySkipped
    \/ CopyLibraryNotFound
    \/ CopyStart
    \/ CopyTargetRemoveReturned
    \/ CopyAttemptSucceeded
    \/ CopyAttemptFailedRetry
    \/ CopyAttemptFailedLast
    \/ CopyAttemptRaisedOther
    \/ Finish

Spec == Init /\ [][Next]_vars

\* get_cmake_args on its own: every request and environment, and the one
\* step of configure_cmake that calls the resolver and keeps what it returned.
ResolverSpec == Init /\ [][ConfigureStart]_vars

\* ------------------------------------------------- scripts/check/*.py

\* platform.system() of the machine the checker scripts run on.
Systems == {"Linux", "Windows", "Darwin"}

\* What one check function did: the entries it appended to the three lists
\* of its checker, and the exception it raised (None: it returned).
Effect(errs, warns, infos, exc) ==
    [errors |-> errs, warnings |-> warns, info |-> infos, raised |-> exc]

Quiet == Effect(<< >>, << >>, << >>, None)

\* The lists of a checker object after __init__.
NoLists == [errors |-> << >>, warnings |-> << >>, info |-> << >>]

\* self.errors.clear(); self.warnings.clear(); self.info.clear()
Cleared(self) == [self EXCEPT !.errors = << >>, !.warnings = << >>, !.info = << >>]

\* The loop of run_all_checks (project_check.py 146-150, toolchain_check.py
\* 269-273): every check is called; what it raises becomes one more entry of
\* self.errors.  `ran` lists the checks called.
RECURSIVE RunChecks(_, _, _)
RunChecks(checks, effect, lists) ==
    IF checks = << >> THEN lists
    ELSE LET check_name == Head(checks)
             e == effect[check_name]
         IN  RunChecks(Tail(checks), effect,
                 [errors   |-> lists.errors \o e.errors
                                  \o (IF e.raised # None
                                      THEN << check_name \o " check failed with exception: "
                                                  \o e.raised >>
                                      ELSE << >>),
                  warnings |-> lists.warnings \o e.warnings,
                  info     |-> lists.info \o e.info,
                  ran      |-> Append(lists.ran, check_name)])

\* What run_all_checks returns (ProjectChecker returns no info list: it
\* stays empty), with the checks it called.
Returned(success, lists) ==
    [raised |-> None, success |-> success, errors |-> lists.errors,
     warnings |-> lists.warnings, info |-> lists.info, ran |-> lists.ran]

\* A call that an exception left: nothing is returned.
Propagated(e, lists) ==
    [raised |-> e, success |-> FALSE, errors |-> lists.errors,
     warnings |-> lists.warnings, info |-> lists.info, ran |-> lists.ran]

\* ---- project_check.py

ProjectChecks == << "Project Structure", "Git Submodules", "Source Files", "CMakeLists.txt" >>

\* The project trees the checker can be pointed at, by what each check
\* finds: a required directory is missing, or cannot be examined; a
\* submodule is not initialised, .gitmodules cannot be opened (IOError) or
\* is not UTF-8 (UnicodeDecodeError); a source file is missing;
\* native/CMakeLists.txt is missing, lacks project(), or is not UTF-8.
ProjectTrees ==
    { [n \in Range(ProjectChecks) |->
          CASE n = "Project Structure" -> s
            [] n = "Git Submodules"    -> g
            [] n = "Source Files"      -> f
            [] n = "CMakeLists.txt"    -> c] :
        s \in {"ok", "missing", "raises"},
        g \in {"ok", "not initialized", "unreadable", "raises"},
        f \in {"ok", "missing"},
        c \in {"ok", "not found", "no project()", "raises"} }

\* check_project_structure, check_git_submodules, check_source_files and
\* check_cmake_lists on such a tree.
ProjectCheck(check_name, finding) ==
    CASE check_name = "Project Structure" ->
            (CASE finding = "missing" ->
                     Effect(<< "Required directory missing: native/external" >>,
                            << >>, << >>, None)
               [] finding = "raises" -> Effect(<< >>, << >>, << >>, "PermissionError")
               [] OTHER -> Quiet)
      [] check_name = "Git Submodules" ->
            (CASE finding = "not initialized" ->
                     Effect(<< "Submodule not initialized: native/external/spdlog" >>,
                            << >>, << >>, None)
               [] finding = "unreadable" ->
                     Effect(<< "Failed to read .gitmodules: Permission denied" >>, << >>, << >>,
                            None)
               [] finding = "raises" -> Effect(<< >>, << >>, << >>, "UnicodeDecodeError")
               [] OTHER -> Quiet)
      [] check_name = "Source Files" ->
            (CASE finding = "missing" ->
                     Effect(<< >>, << "Source file missing: native/src/bridge/bridge.cpp" >>,
                            << >>, None)
               [] OTHER -> Quiet)
      [] OTHER ->
            (CASE finding = "not found" ->
                     Effect(<< "native/CMakeLists.txt not found" >>, << >>, << >>, None)
               [] finding = "no project()" ->
                     Effect(<< >>, << "CMakeLists.txt may be missing project() declaration" >>,
                            << >>, None)
               [] finding = "raises" -> Effect(<< >>, << >>, << >>, "UnicodeDecodeError")
               [] OTHER -> Quiet)

\* ProjectChecker.run_all_checks without the two clear() calls.
ProjectRunAllChecksKeepsLists(self, tree) ==
    LET lists == RunChecks(ProjectChecks,
                           [n \in Range(ProjectChecks) |-> ProjectCheck(n, tree[n])],
                           [errors |-> self.errors, warnings |-> self.warnings,
                            info |-> self.info, ran |-> << >>])
    IN  Returned(lists.errors = << >>, lists)

\* ProjectChecker.run_all_checks, lines 134-152.
ProjectRunAllChecks(self, tree) ==
    LET lists == RunChecks(ProjectChecks,
                           [n \in Range(ProjectChecks) |-> ProjectCheck(n, tree[n])],
                           [errors |-> Cleared(self).errors, warnings |-> Cleared(self).warnings,
                            info |-> Cleared(self).info, ran |-> << >>])
    IN  Returned(lists.errors = << >>, lists)

\* ---- toolchain_check.py

\* Lines 253-267: the checks, with the two more of Windows.
ToolchainChecks(system) ==
    << "Python", "CMake", "CMake Generators", "C Compiler", "C++ Compiler", "Environment" >>
        \o (IF system = "Windows" THEN << "Visual Studio", "MinGW/MSYS" >> ELSE << >>)

AllToolchainChecks == Range(ToolchainChecks("Windows"))

\* The machines the checker can run on, by what each check finds; the
\* Windows-only checks find "ok" elsewhere (they are not called).  Listing
\* the directory of Visual Studio can raise PermissionError.
ToolchainMachines(system) ==
    { [n \in AllToolchainChecks |->
          CASE n = "Python"           -> py
            [] n = "CMake"            -> cm
            [] n = "CMake Generators" -> gen
            [] n = "C Compiler"       -> cc_
            [] n = "C++ Compiler"     -> cxx
            [] n = "Visual Studio"    -> vs
            [] n = "MinGW/MSYS"       -> mingw
            [] OTHER                  -> "ok"] :
        py \in {"ok", "too old"},
        cm \in {"ok", "not found", "too old"},
        gen \in {"ok", "unavailable"},
        cc_ \in {"ok", "not found"},
        cxx \in {"ok", "not found"},
        vs \in IF system = "Windows" THEN {"ok", "not found", "raises"} ELSE {"ok"},
        mingw \in IF system = "Windows" THEN {"ok", "not found"} ELSE {"ok"} }

\* check_python ... check_mingw, lines 41-245.
ToolchainCheck(system, check_name, finding) ==
    CASE check_name = "Python" ->
            IF finding = "too old"
            THEN Effect(<< "Python 3.5 is too old. Requires 3.6 or later." >>, << >>, << >>, None)
            ELSE Effect(<< >>, << >>, << "Python version: 3.11.6" >>, None)
      [] check_name = "CMake" ->
            (CASE finding = "not found" ->
                     Effect(<< "CMake not found. Install CMake 3.20 or later." >>,
                            << >>, << >>, None)
               [] finding = "too old" ->
                     Effect(<< "CMake version 3.16 is too old. Requires 3.20 or later." >>,
                            << >>, << >>, None)
               [] OTHER -> Effect(<< >>, << >>, << "CMake version: 3.27" >>, None))
      [] check_name = "CMake Generators" ->
            IF finding = "unavailable"
            THEN Effect(<< >>, << "Could not list CMake generators" >>, << >>, None)
            ELSE Effect(<< >>, << >>, << "MinGW/Ninja generators: Ninja" >>, None)
      [] check_name = "C Compiler" ->
            IF finding = "not found"
            THEN Effect(<< IF system = "Windows" THEN "No C compiler found (MSVC or MinGW GCC)"
                           ELSE "GCC not found" >>, << >>, << >>, None)
            ELSE Effect(<< >>, << >>,
                        << IF system = "Windows" THEN "MSVC compiler found"
                           ELSE "GCC found: 13.2" >>, None)
      [] check_name = "C++ Compiler" ->
            IF finding = "not found"
            THEN Effect(<< IF system = "Windows"
                           THEN "No C++ compiler found (MSVC or MinGW G++)"
                           ELSE "G++ or Clang++ not found" >>, << >>, << >>, None)
            ELSE Effect(<< >>, << >>,
                        << IF system = "Windows" THEN "MSVC compiler found"
                           ELSE "G++ found: 13.2" >>, None)
      [] check_name = "Visual Studio" ->
            (CASE finding = "not found" ->
                     Effect(<< >>, << "Visual Studio not found (optional for MinGW builds)" >>,
                            << >>, None)
               [] finding = "raises" -> Effect(<< >>, << >>, << >>, "PermissionError")
               [] OTHER -> Effect(<< >>, << >>, << "Visual Studio found at: C:/Program Files" >>,
                                  None))
      [] check_name = "MinGW/MSYS" ->
            IF finding = "not found"
            THEN Effect(<< >>, << "MinGW/MSYS not found (optional if using Visual Studio)" >>,
                        << >>, None)
            ELSE Effect(<< >>, << >>, << "MinGW/MSYS found in PATH" >>, None)
      [] OTHER -> Effect(<< >>, << >>, << "Platform: " \o system \o " x86_64" >>, None)

\* ToolchainChecker.run_all_checks, lines 247-275.
ToolchainRunAllChecks(self, system, machine) ==
    LET lists == RunChecks(ToolchainChecks(system),
                           [n \in AllToolchainChecks |-> ToolchainCheck(system, n, machine[n])],
                           [errors |-> Cleared(self).errors, warnings |-> Cleared(self).warnings,
                            info |-> Cleared(self).info, ran |-> << >>])
    IN  Returned(lists.errors = << >>, lists)

\* ---- cross_compile_check.py

\* argparse choices of --platform; None: the option is not given.
TargetPlatforms == {None, "linux", "windows", "macos", "android", "ios"}

\* Line 185.
CrossPlatforms == << "linux", "windows", "macos", "android", "ios" >>

\* What the cross-compilation checks find: the Android NDK (found / not
\* found / ANDROID_NDK_HOME without the toolchain file / ANDROID_NDK_HOME
\* names a path that cannot be examined: Path.exists raises OSError), Xcode,
\* the cross compilers for Linux and Windows, and osxcross (OSXCROSS_PATH
\* can name such a path too).
CrossFindings ==
    { [n \in Range(CrossPlatforms) |->
          CASE n = "android" -> a
            [] n = "ios"     -> i
            [] n = "linux"   -> l
            [] n = "windows" -> w
            [] OTHER         -> m] :
        a \in {"ok", "not found", "no toolchain file", "raises"},
        i \in {"ok", "not found"},
        l \in {"ok", "not found"},
        w \in {"ok", "not found"},
        m \in {"ok", "not found", "raises"} }

\* check_android_ndk, check_ios_toolchain, check_linux_cross_compile,
\* check_windows_cross_compile and check_macos_cross_compile, lines 38-158.
CrossCheck(system, plat, finding) ==
    CASE plat = "android" ->
            (CASE finding = "not found" ->
                     Effect(<< >>, << "Android NDK not found. Set ANDROID_NDK_HOME environment variable." >>,
                            << >>, None)
               [] finding = "no toolchain file" ->
                     Effect(<< >>,
                            << "Android NDK found but toolchain file missing",
                               "Android NDK not found. Set ANDROID_NDK_HOME environment variable." >>,
                            << >>, None)
               [] finding = "raises" -> Effect(<< >>, << >>, << >>, "OSError")
               [] OTHER -> Effect(<< >>, << >>, << "Android NDK found" >>, None))
      [] plat = "ios" ->
            IF system # "Darwin" THEN Quiet
            ELSE IF finding = "not found"
            THEN Effect(<< >>, << "Xcode not found (required for iOS builds)" >>, << >>, None)
            ELSE Effect(<< >>, << >>, << "iOS toolchain available" >>, None)
      [] plat = "linux" ->
            IF system = "Linux" THEN Quiet
            ELSE IF finding = "not found"
            THEN Effect(<< >>, << "Linux cross-compilation toolchain not found" >>, << >>, None)
            ELSE Effect(<< >>, << >>, << "Linux cross-compiler found: x86_64-linux-gnu-gcc" >>,
                        None)
      [] plat = "windows" ->
            IF system = "Windows" THEN Quiet
            ELSE IF finding = "not found"
            THEN Effect(<< >>, << "Windows cross-compilation toolchain not found" >>, << >>, None)
            ELSE Effect(<< >>, << >>, << "MinGW cross-compiler found for Windows" >>, None)
      [] OTHER ->
            IF system = "Darwin" THEN Quiet
            ELSE (CASE finding = "not found" ->
                          Effect(<< >>, << "macOS cross-compilation toolchain (osxcross) not found. " >>,
                                 << >>, None)
                    [] finding = "raises" -> Effect(<< >>, << >>, << >>, "OSError")
                    [] OTHER -> Effect(<< >>, << >>, << "osxcross found" >>, None))

\* check_platform_specific, lines 160-181: nothing to check for the platform
\* of the machine itself ("darwin" is never a target name).
check_platform_specific(system, target_platform, findings) ==
    IF target_platform = Lower(system) THEN Quiet
    ELSE CrossCheck(system, target_platform, findings[target_platform])

\* check_all_platforms, lines 183-191: an exception of one check leaves the
\* loop.
RECURSIVE check_all_platforms(_, _, _, _)
check_all_platforms(platforms, system, findings, lists) ==
    IF platforms = << >> THEN [lists EXCEPT !.raised = None]
    ELSE LET e == check_platform_specific(system, Head(platforms), findings)
             after == [lists EXCEPT !.warnings = @ \o e.warnings, !.info = @ \o e.info,
                                    !.ran = Append(@, Head(platforms))]
         IN  IF e.raised # None THEN [after EXCEPT !.raised = e.raised]
             ELSE check_all_platforms(Tail(platforms), system, findings, after)

\* CrossCompileChecker.run_all_checks, lines 193-205: True whatever was
\* found; no try around the checks.
CrossRunAllChecks(self, system, target_platform, findings) ==
    LET entry == [errors |-> Cleared(self).errors, warnings |-> Cleared(self).warnings,
                  info |-> Cleared(self).info, ran |-> << >>, raised |-> None]
        lists == check_all_platforms(
                     IF Truthy(target_platform) THEN << target_platform >> ELSE CrossPlatforms,
                     system, findings, entry)
    IN  IF lists.raised # None THEN Propagated(lists.raised, lists)
        ELSE Returned(TRUE, lists)

\* ---- check_all.py

\* main, lines 42-110: the three checkers one after the other, each on a new
\* object; an exception that leaves a checker ends the script with a
\* traceback.
CheckAll(system, tree, machine, target_platform, findings) ==
    LET p == ProjectRunAllChecks(NoLists, tree)
        t == ToolchainRunAllChecks(NoLists, system, machine)
        c == CrossRunAllChecks(NoLists, system, target_platform, findings)
        all_passed == p.success /\ t.success /\ c.success
    IN  [ran |-> << "Project Integrity Check", "Toolchain Check", "Cross-Compilation Check" >>,
         project |-> p, toolchain |-> t, cross |-> c,
         exit |-> IF c.raised # None THEN "traceback"
                  ELSE IF all_passed THEN "exit 0" ELSE "exit 1"]

\* ---- the programs that use the checkers

\* How often one checker object is asked to run its checks, and how often
\* the environment changes in between.
MaxCalls == 2
MaxChanges == 1

\* A program that holds one checker and calls run_all_checks on it.
CheckerProgram(program, system, findings) ==
    [program |-> program, system |-> system, findings |-> findings, self |-> NoLists,
     calls |-> << >>, changes |-> 0, exit |-> "running"]

\* The build pipeline is not running.
PipelineIdle ==
    /\ host = "linux" /\ platform = "linux" /\ arch = "x86_64"
    /\ generatorArg = None /\ toolchainArg = None /\ clean = FALSE
    /\ fs = MakeFs(None, Absent, Absent)
    /\ pc = "idle" /\ exitStatus = "running" /\ error = NoError
    /\ started = << >> /\ completed = << >> /\ skipped = {}
    /\ env = NoEnv /\ probes = << >> /\ cmake_args = << >>
    /\ current_generator = None /\ builderGenerator = None /\ warnings = {}
    /\ cc = NoCc /\ cl = NoCl /\ rm = NoRm /\ cp = NoCp
    /\ build = NoBuild /\ tests = NoTests

pipeline ==
    << host, platform, arch, generatorArg, toolchainArg, clean, fs, pc, exitStatus, error,
       started, completed, skipped, env, probes, cmake_args, current_generator,
       builderGenerator, warnings, cc, cl, rm, cp, build, tests >>

CheckerInit ==
    /\ PipelineIdle
    /\ \/ \E tree \in ProjectTrees : ck = CheckerProgram("project", "Linux", tree)
       \/ \E system \in {"Linux", "Windows"} : \E machine \in ToolchainMachines(system) :
             ck = CheckerProgram("toolchain", system, machine)
       \/ \E system \in Systems :
             ck = CheckerProgram("cross", system, [n \in {} |-> "ok"])
       \/ \E system \in Systems :
             ck = CheckerProgram("check_all", system, [n \in {} |-> "ok"])

\* One call of run_all_checks: the environment it ran in, what it returned
\* (the lists as they were when the call returned: the caller gets the
\* list objects of the checker, which the next call clears and refills).
Call(findings, target_platform, result) ==
    [findings |-> findings, target_platform |-> target_platform, result |-> result]

\* The lists of the checker object after the call.
ListsOf(result) ==
    [errors |-> result.errors, warnings |-> result.warnings, info |-> result.info]

CallProject ==
    /\ ck.program = "project"
    /\ Len(ck.calls) < MaxCalls
    /\ LET r == ProjectRunAllChecks(ck.self, ck.findings)
       IN  ck' = [ck EXCEPT !.self = ListsOf(r),
                            !.calls = Append(@, Call(ck.findings, None, r))]
    /\ UNCHANGED pipeline

CallToolchain ==
    /\ ck.program = "toolchain"
    /\ Len(ck.calls) < MaxCalls
    /\ LET r == ToolchainRunAllChecks(ck.self, ck.system, ck.findings)
       IN  ck' = [ck EXCEPT !.self = ListsOf(r),
                            !.calls = Append(@, Call(ck.findings, None, r))]
    /\ UNCHANGED pipeline

\* Something is installed, removed or repaired between two calls: one check
\* finds something else.
EnvironmentChanges ==
    /\ ck.program \in {"project", "toolchain"}
    /\ ck.changes < MaxChanges
    /\ \E f \in IF ck.program = "project" THEN ProjectTrees
                ELSE ToolchainMachines(ck.system) :
          /\ Cardinality({n \in DOMAIN f : f[n] # ck.findings[n]}) = 1
          /\ ck' = [ck EXCEPT !.findings = f, !.changes = @ + 1]
    /\ UNCHANGED pipeline

\* cross_compile_check.py, main: one call, and the exit status.
CallCross ==
    /\ ck.program = "cross"
    /\ ck.calls = << >>
    /\ \E target_platform \in TargetPlatforms : \E findings \in CrossFindings :
          LET r == CrossRunAllChecks(ck.self, ck.system, target_platform, findings)
          IN  ck' = [ck EXCEPT !.self = ListsOf(r),
                               !.calls = Append(@, Call(findings, target_platform, r)),
                               !.exit = IF r.raised # None THEN "traceback"
                                        ELSE IF r.success THEN "exit 0" ELSE "exit 1"]
    /\ UNCHANGED pipeline

\* A project tree and a machine that pass every check, and ones that do not.
SoundTree == [n \in Range(ProjectChecks) |-> "ok"]
BrokenTree == [SoundTree EXCEPT !["CMakeLists.txt"] = "not found"]
SoundMachine == [n \in AllToolchainChecks |-> "ok"]
BrokenMachine == [SoundMachine EXCEPT !["CMake"] = "not found"]

\* check_all.py, main.
RunCheckAll ==
    /\ ck.program = "check_all"
    /\ ck.calls = << >>
    /\ \E tree \in {SoundTree, BrokenTree} : \E machine \in {SoundMachine, BrokenMachine} :
       \E target_platform \in TargetPlatforms : \E findings \in CrossFindings :
          LET m == CheckAll(ck.system, tree, machine, target_platform, findings)
          IN  ck' = [ck EXCEPT !.calls = << Call(tree, None, m.project),
                                            Call(machine, None, m.toolchain),
                                            Call(findings, target_platform, m.cross) >>,
                               !.exit = m.exit]
    /\ UNCHANGED pipeline

CheckerNext ==
    \/ CallProject
    \/ CallToolchain
    \/ EnvironmentChanges
    \/ CallCross
    \/ RunCheckAll

\* The checker scripts on their own.
CheckerSpec == CheckerInit /\ [][CheckerNext]_vars

\* ------------------------------------------------------------ properties

\* check_and_clean_cmake_cache has just returned to configure_cmake.
CheckReturned == pc = "cmake" /\ cc.ret \in {"True", "False"}

\* What the function read from the cache file it found at entry.
CachedAsRead == IF cc.readable THEN ParseCachedGenerator(cc.entry[CachePath]) ELSE None

Count(t, S) == Cardinality({i \in 1..Len(t) : t[i] \in S})


\* C1 (as claimed): when the cache recorded G1 and G2 # G1 is requested, then
\* whenever check_and_clean_cmake_cache returns True neither CMakeCache.txt
\* nor CMakeFiles exists at its original path.
C1_RemovedWhenTrue ==
    (/\ CheckReturned
     /\ cc.ret = "True"
     /\ CachedAsRead # None
     /\ CachedAsRead # current_generator)
        => ~Exists(fs, CachePath) /\ ~Exists(fs, FilesPath)

\* C2: when CMakeCache.txt exists and the generator read from it equals the
\* requested one, check_and_clean_cmake_cache returns False, runs no cleanup
\* and leaves every file and directory as it found it.
C2_MatchLeavesCache ==
    (/\ CheckReturned
     /\ Exists(cc.entry, CachePath)
     /\ CachedAsRead = current_generator)
        => /\ cc.ret = "False"
           /\ cl = NoCl
           /\ fs = cc.entry

C2_Witness ==
    /\ CheckReturned
    /\ cc.entry[CachePath] = "Ninja  "
    /\ cc.entry[FilesPath] = Dir
    /\ CachedAsRead = current_generator

\* C3: when CMakeCache.txt exists but yields no generator name (no such line,
\* or the read raised), check_and_clean_cmake_cache runs the cleanup on both
\* CMakeCache.txt and CMakeFiles and returns True, whatever the generator.
C3_UnparsedIsMismatch ==
    (/\ CheckReturned
     /\ Exists(cc.entry, CachePath)
     /\ CachedAsRead = None)
        => /\ cc.ret = "True"
           /\ cl.caller = "check"
           /\ cl.entry = cc.entry
           /\ cl.cache_removed \in {"True", "False"}
           /\ cl.dir_removed \in {"True", "False"}

C3_Witness ==
    /\ CheckReturned
    /\ cc.entry[CachePath] = NoGeneratorLine
    /\ cc.ret = "True"
    /\ ~Exists(fs, CachePath)

\* C4 (as claimed): with clean = True, for every platform, when cmake is
\* about to be invoked CMakeCache.txt and CMakeFiles have been cleaned by the
\* forced cleanup, unless neither existed.
C4_ForcedCleanEveryPlatform ==
    (pc = "cmake" /\ clean)
        => \/ cl.caller = "forced"
           \/ (~Exists(fs, CachePath) /\ ~Exists(fs, FilesPath))

\* C5: when the build directory holds no CMakeCache.txt,
\* check_and_clean_cmake_cache returns False and changes nothing (an
\* existing CMakeFiles stays).
C5_NoCacheNoChange ==
    (CheckReturned /\ ~Exists(cc.entry, CachePath))
        => /\ cc.ret = "False"
           /\ cl = NoCl
           /\ fs = cc.entry

C5_Witness ==
    /\ CheckReturned
    /\ ~Exists(cc.entry, CachePath)
    /\ Exists(fs, FilesPath)

\* C6 (as claimed): when configure_cmake resolved a generator G, at the
\* start of the cmake subprocess CMakeCache.txt is absent or records G.
C6_CacheAbsentOrSame ==
    (pc = "cmake" /\ Truthy(current_generator))
        => \/ ~Exists(fs, CachePath)
           \/ ParseCachedGenerator(fs[CachePath]) = current_generator

\* C6 (amended): ... CMakeCache.txt is absent, or records G, or its removal
\* failed (_remove_file_with_retry returned False after every delete attempt
\* and the rename aside raised).
C6_CacheAbsentOrSameOrLocked ==
    (pc = "cmake" /\ Truthy(current_generator))
        => \/ ~Exists(fs, CachePath)
           \/ ParseCachedGenerator(fs[CachePath]) = current_generator
           \/ cl.cache_removed = "False"

C6_Witness ==
    /\ pc = "cmake"
    /\ Truthy(current_generator)
    /\ cl.caller = "check"
    /\ cc.cached = "Ninja"
    /\ ~Exists(fs, CachePath)
    /\ fs[OldName(CachePath)] = "Ninja"

\* CMakeCache.txt or CMakeFiles is deleted or renamed by this step.
BuildStateRemoved == fs'[CachePath] # fs[CachePath] \/ fs'[FilesPath] # fs[FilesPath]

\* The mismatch case: check_and_clean_cmake_cache found a cache file whose
\* generator, as read, is missing or differs from the requested one.
MismatchCleanup ==
    /\ cl.caller = "check"
    /\ Exists(cc.entry, CachePath)
    /\ CachedAsRead # current_generator

\* C7 (as claimed): CMakeCache.txt and CMakeFiles are deleted or renamed
\* only when a cache file exists whose recorded generator differs from the
\* requested one.
C7_OnlyOnMismatch == [][BuildStateRemoved => MismatchCleanup]_vars

\* C7 (amended): ... only when a cache file exists whose recorded generator
\* differs from the requested one, or when the forced clean was requested
\* (clean = True) and a generator was resolved.
C7_OnlyOnMismatchOrForced ==
    [][BuildStateRemoved =>
          \/ MismatchCleanup
          \/ (cl.caller = "forced" /\ clean /\ Truthy(current_generator))]_vars

C7_Witness ==
    /\ cl.caller = "forced"
    /\ Exists(cl.entry, CachePath)
    /\ ParseCachedGenerator(cl.entry[CachePath]) = current_generator
    /\ ~Exists(fs, CachePath)

\* C8: the cache cleanup never raises.  Whatever deletes and renames fail,
\* a removal helper that is over has returned True or False; the rename
\* aside is what follows max_retries failed deletes, a successful one leaves
\* the path under its '.old' name and a failed one makes the result False;
\* and while and after the cleanup runs configure_cmake is on its way to the
\* cmake subprocess, never out of it.
C8_CleanupNeverRaises ==
    /\ (rm.phase = "returned" => rm.ret \in {"True", "False"})
    /\ (rm.phase = "returned" /\ Count(rm.trace, {"delete failed"}) = rm.max =>
            /\ rm.trace[Len(rm.trace)] \in {"rename ok", "rename failed", "backup failed"}
            /\ (rm.trace[Len(rm.trace)] = "rename ok" =>
                    /\ rm.ret = "True"
                    /\ ~Exists(fs, rm.path)
                    /\ Exists(fs, OldName(rm.path)))
            /\ (rm.trace[Len(rm.trace)] # "rename ok" => rm.ret = "False"))
    /\ (cl.caller # "not called" =>
            /\ exitStatus = "running"
            /\ pc \in {"rm", "cmake"}
            /\ (cl.dir_removed # "pending" => pc = "cmake"))

C8_Witness ==
    /\ pc = "cmake"
    /\ cl.cache_removed = "False"
    /\ cl.dir_removed = "False"
    /\ exitStatus = "running"

DeleteAttempts == {"delete ok", "delete failed"}
RenameAttempts == {"rename ok", "rename failed"}

\* C9: one call of a removal helper with max_retries = N makes at most N
\* delete attempts and at most N - 1 sleeps, each sleep right after a failed
\* delete and before another attempt; it makes at most one rename attempt,
\* as its last act, right after the N-th failed delete.
C9_RetryLoopBounded ==
    rm.kind # "none" =>
        LET t == rm.trace
        IN  /\ rm.max >= 1
            /\ Count(t, DeleteAttempts) <= rm.max
            /\ Count(t, {"sleep"}) <= rm.max - 1
            /\ Count(t, RenameAttempts) <= 1
            /\ \A i \in 1..Len(t) :
                  /\ t[i] = "sleep" =>
                        /\ i > 1 /\ t[i - 1] = "delete failed"
                        /\ IF i < Len(t) THEN t[i + 1] \in DeleteAttempts
                           ELSE rm.phase = "loop"
                  /\ t[i] \in RenameAttempts \cup {"backup failed"} =>
                        /\ i = Len(t)
                        /\ i > 1 /\ t[i - 1] = "delete failed"
                        /\ Count(t, {"delete failed"}) = rm.max

C9_Witness ==
    /\ rm.phase = "returned"
    /\ rm.max = TargetMaxRetries
    /\ Count(rm.trace, {"delete failed"}) = TargetMaxRetries
    /\ Count(rm.trace, {"sleep"}) = TargetMaxRetries - 1
    /\ rm.trace[Len(rm.trace)] = "rename ok"

StepOrder == << "configure", "build", "test", "copy" >>

StepIndex(s) == CHOOSE i \in 1..Len(StepOrder) : StepOrder[i] = s

\* C10: the steps of main start in the order configure, build, test, copy; a
\* step starts only when every earlier step has completed or was skipped by
\* its flag; a step that failed is the last one started, and the process
\* then exits with status 1; it exits with 0 only when every step completed
\* or was skipped.
C10_Sequential ==
    /\ \A i, j \in 1..Len(started) :
          i < j => StepIndex(started[i]) < StepIndex(started[j])
    /\ skipped \subseteq {"test", "copy"}
    /\ skipped \cap Range(started) = {}
    /\ Range(completed) \subseteq Range(started)
    /\ \A i \in 1..Len(started) :
          /\ \A k \in 1..(StepIndex(started[i]) - 1) :
                StepOrder[k] \in Range(completed) \cup skipped
          /\ (started[i] \notin Range(completed) => i = Len(started))
    /\ (exitStatus = "exit 1" <=>
            pc = "exit" /\ started # << >>
                /\ started[Len(started)] \notin Range(completed))
    /\ (exitStatus = "exit 0" <=>
            pc = "exit" /\ Range(StepOrder) = Range(completed) \cup skipped)
    /\ (pc = "exit" <=> exitStatus # "running")

C10_Witness ==
    /\ exitStatus = "exit 1"
    /\ started = << "configure", "build", "test" >>
    /\ completed = << "configure", "build" >>

\* _remove_file_with_retry has returned to copy_library_to_unity.
TargetRemoveReturned == pc = "rm" /\ rm.caller = "copy" /\ rm.phase = "returned"

\* C11 (as claimed): an existing target that is deleted in one of the 5
\* attempts lets the copy proceed; one that is deleted in none of them makes
\* the step raise a PermissionError naming the target, without a copy.
C11_LockedTargetRaises ==
    [][TargetRemoveReturned =>
          IF Count(rm.trace, {"delete failed"}) < TargetMaxRetries
          THEN pc' = "copying"
          ELSE /\ pc' = "exit"
               /\ error'.type = "PermissionError"
               /\ TargetPath \in Range(error'.msg)
               /\ cp' = NoCp]_vars

\* C11 (amended): an existing target that is deleted in one of the 5 attempts,
\* or renamed aside to '<target>.old' after the 5th failed one, lets the copy
\* proceed onto a free path, and a copy that succeeds leaves the newly built
\* library there; only when the 5 deletes and the rename aside all fail does
\* the step raise a PermissionError whose message names the target, with no
\* copy attempted and the old target still in place.
C11_TargetFreedOrRaises ==
    [][/\ TargetRemoveReturned =>
             LET t == rm.trace
                 freed == \/ t[Len(t)] = "delete ok"
                          \/ (/\ Count(t, {"delete failed"}) = TargetMaxRetries
                              /\ t[Len(t)] = "rename ok")
             IN  /\ t # << >>
                 /\ Count(t, DeleteAttempts) <= TargetMaxRetries
                 /\ IF freed
                    THEN /\ pc' = "copying"
                         /\ ~Exists(fs', TargetPath)
                         /\ UNCHANGED << cp, outcome >>
                    ELSE /\ Count(t, {"delete failed"}) = TargetMaxRetries
                         /\ t[Len(t)] = "rename failed"
                         /\ pc' = "exit"
                         /\ exitStatus' = "exit 1"
                         /\ error'.type = "PermissionError"
                         /\ TargetPath \in Range(error'.msg)
                         /\ cp' = NoCp
                         /\ fs'[TargetPath] = "old library"
       /\ (pc = "copying" /\ "copy" \in Range(completed')) =>
             fs'[TargetPath] = "new library"]_vars

C11_Witness ==
    /\ pc = "exit"
    /\ "copy" \in Range(started)
    /\ error = Error("PermissionError", RemoveFailedMessage(TargetPath))
    /\ fs[TargetPath] = "old library"
    /\ cp = NoCp

CopyAttempts == {"copy ok", "copy failed", "copy raised"}

\* C12: the copy is attempted at most 3 times, with a sleep after every
\* failed attempt but the last and before the next one; a successful attempt
\* is the last one and completes the step; 3 attempts failing with OSError
\* make the step raise PermissionError, and main exit with status 1.
C12_CopyRetried ==
    LET t == cp.trace
    IN  /\ Count(t, CopyAttempts) <= CopyMaxRetries
        /\ Count(t, {"sleep"}) <= CopyMaxRetries - 1
        /\ \A i \in 1..Len(t) :
              /\ t[i] = "sleep" =>
                    /\ i > 1 /\ t[i - 1] = "copy failed"
                    /\ IF i < Len(t) THEN t[i + 1] \in CopyAttempts ELSE pc = "copying"
              /\ (t[i] = "copy failed" /\ i < Len(t)) => t[i + 1] = "sleep"
              /\ t[i] = "copy ok" =>
                    /\ i = Len(t)
                    /\ "copy" \in Range(completed)
                    /\ error = NoError
                    /\ fs[TargetPath] = "new library"
        /\ ("copy" \in Range(completed) => t # << >> /\ t[Len(t)] = "copy ok")
        /\ (Count(t, {"copy failed"}) = CopyMaxRetries =>
                /\ pc = "exit"
                /\ exitStatus = "exit 1"
                /\ error = Error("PermissionError", CopyFailedMessage(TargetPath)))
        /\ (error.type = "PermissionError" /\ t # << >> =>
                Count(t, {"copy failed"}) = CopyMaxRetries)

C12_Witness ==
    /\ cp.trace = << "copy failed", "sleep", "copy failed", "sleep", "copy failed" >>
    /\ exitStatus = "exit 1"
    /\ error.type = "PermissionError"

\* C13: a request for android without a toolchain ends in the step that
\* resolves the cmake arguments: ValueError is raised, no probe and no cmake
\* subprocess has run, and the process exits with status 1.
C13_AndroidNeedsToolchain ==
    [][(pc = "configure" /\ platform = "android" /\ toolchainArg = None) =>
          /\ pc' = "exit"
          /\ exitStatus' = "exit 1"
          /\ error'.type = "ValueError"
          /\ probes' = << >>
          /\ started' = << "configure" >>
          /\ completed' = << >>]_vars

C13_Witness ==
    /\ pc = "exit"
    /\ platform = "android"
    /\ toolchainArg = None
    /\ error = Error("ValueError", << "Android builds require --toolchain" >>)
    /\ probes = << >>
    /\ started = << "configure" >>

\* sys.platform on the operating system a platform's library runs on (none
\* of the hosts for the mobile platforms).
TargetHost(plat) ==
    CASE plat = "linux"   -> "linux"
      [] plat = "windows" -> "win32"
      [] plat = "macos"   -> "darwin"
      [] OTHER            -> None

\* get_cmake_args is about to be called for a cross-compilation / native request.
CrossRequest == pc = "configure" /\ TargetHost(platform) # host
NativeRequest == pc = "configure" /\ TargetHost(platform) = host

ToolchainFlags == {"-DCMAKE_TOOLCHAIN_FILE=" \o t : t \in ToolchainArgs}

MinOf(S) == CHOOSE i \in S : \A j \in S : i <= j

C15_NativeNeedsNoToolchain ==
    [][(NativeRequest /\ toolchainArg = None) =>
          /\ pc' = "resolved"
          /\ UNCHANGED outcome
          /\ error' = NoError
          /\ Range(cmake_args') \cap ToolchainFlags = {}]_vars

C15_Witness ==
    /\ pc = "resolved"
    /\ platform = "macos"
    /\ host = "darwin"
    /\ arch = "x86_64"
    /\ toolchainArg = None
    /\ cmake_args = << "-DCMAKE_OSX_ARCHITECTURES=x86_64" >>

\* C16: a Windows target on a non-Windows host with a toolchain file: the
\* arguments hold the toolchain-file flag of that file; they hold '-G' if
\* and only if a generator was supplied, and then followed by that generator;
\* they hold no system-name override, and no warning is emitted.
C16_CrossWithToolchain ==
    (/\ pc = "resolved"
     /\ platform = "windows"
     /\ host # "win32"
     /\ toolchainArg # None)
        => /\ ("-DCMAKE_TOOLCHAIN_FILE=" \o toolchainArg) \in Range(cmake_args)
           /\ ("-G" \in Range(cmake_args) <=> generatorArg # None)
           /\ current_generator = generatorArg
           /\ "-DCMAKE_SYSTEM_NAME=Windows" \notin Range(cmake_args)
           /\ warnings = {}

C16_Witness ==
    /\ pc = "resolved"
    /\ platform = "windows"
    /\ host = "darwin"
    /\ toolchainArg = "tc.cmake"
    /\ generatorArg = "Ninja"
    /\ cmake_args = << "-DCMAKE_TOOLCHAIN_FILE=tc.cmake", "-G", "Ninja" >>

\* get_cmake_args has returned from a native Windows call without --generator.
NativeWindowsAuto ==
    /\ pc = "resolved"
    /\ platform = "windows"
    /\ host = "win32"
    /\ generatorArg = None

\* MSYSTEM, MSYS or MSYS2_PATH is set, or 'msys' occurs in PATH or SHELL
\* whatever the case of the letters.
MsysEnvironment ==
    \/ env.environ.names \cap {"MSYSTEM", "MSYS", "MSYS2_PATH"} # {}
    \/ env.environ.PATH = "C:/MSYS64/usr/bin;C:/Windows/system32"
    \/ env.environ.SHELL = "C:/msys64/usr/bin/bash.exe"

\* The generators a detector's probing reported: the stdout of the probe
\* that exited 0.
Reported(run) == ProbeGenerators(run).out

\* C17 (as claimed): native Windows, x86_64, no generator, no MSYS: whenever
\* the reported generators include 'Visual Studio 17 2022', the arguments are
\* '-G' 'Visual Studio 17 2022' '-A' 'x64'.
C17_VS2022Selected ==
    (/\ NativeWindowsAuto
     /\ arch = "x86_64"
     /\ ~MsysEnvironment
     /\ "Visual Studio 17 2022" \in Reported(env.vs))
        => cmake_args = << "-G", "Visual Studio 17 2022", "-A", "x64" >>

\* C17 (amended): ... whenever the reported generators include 'Visual Studio
\* 17 2022' and neither 'Visual Studio 19 2026' nor 'Visual Studio 18 2025',
\* the arguments are '-G' 'Visual Studio 17 2022' '-A' 'x64'.
C17_VS2022SelectedWhenNewest ==
    (/\ NativeWindowsAuto
     /\ arch = "x86_64"
     /\ ~MsysEnvironment
     /\ "Visual Studio 17 2022" \in Reported(env.vs)
     /\ "Visual Studio 19 2026" \notin Reported(env.vs)
     /\ "Visual Studio 18 2025" \notin Reported(env.vs))
        => /\ cmake_args = << "-G", "Visual Studio 17 2022", "-A", "x64" >>
           /\ builderGenerator = "Visual Studio 17 2022"
           /\ warnings = {}

C17_Witness ==
    /\ NativeWindowsAuto
    /\ arch = "x86_64"
    /\ env.environ = PlainEnviron
    /\ env.vs.primary = "raise"
    /\ env.vs.gens = {"Visual Studio 17 2022", "Visual Studio 16 2019", "Ninja"}
    /\ probes = << "cmake -G", "cmake --help" >>
    /\ cmake_args = << "-G", "Visual Studio 17 2022", "-A", "x64" >>

\* The priority lists as the claims give them.
VisualStudioByVersion ==
    << "Visual Studio 19 2026", "Visual Studio 18 2025", "Visual Studio 17 2022",
       "Visual Studio 16 2019", "Visual Studio 15 2017", "Visual Studio 14 2015" >>

MakefileCandidates == << "MinGW Makefiles", "Ninja", "Unix Makefiles" >>

\* The positions of the list's names that the reported generators mention.
Found(list, out) == {i \in 1..Len(list) : Mentions(out, list[i])}

\* C18: native Windows, no generator, no MSYS: the generator is the first
\* name of the descending-version list among the reported generators; when
\* no Visual Studio generator is reported, it is the one the Makefile-style
\* candidate probe gives (the first candidate reported there, 'MinGW
\* Makefiles' when none is), and a warning names it.
C18_VisualStudioByPriority ==
    (NativeWindowsAuto /\ ~MsysEnvironment) =>
        LET vs == Found(VisualStudioByVersion, Reported(env.vs))
            alt == Found(MakefileCandidates, Reported(env.alt))
        IN  /\ vs # {} =>
                  /\ builderGenerator = VisualStudioByVersion[MinOf(vs)]
                  /\ current_generator = builderGenerator
            /\ (\A g \in Reported(env.vs) : ~IsVisualStudio(g)) =>
                  /\ builderGenerator =
                        IF alt # {} THEN MakefileCandidates[MinOf(alt)]
                        ELSE "MinGW Makefiles"
                  /\ current_generator = builderGenerator
                  /\ warnings = {Warning("vs-not-found", builderGenerator)}

C18_Witness ==
    /\ NativeWindowsAuto
    /\ env.environ = PlainEnviron
    /\ Reported(env.vs) = {"Ninja", "Unix Makefiles"}
    /\ Reported(env.alt) = {"Ninja", "Unix Makefiles"}
    /\ builderGenerator = "Ninja"
    /\ warnings = {Warning("vs-not-found", "Ninja")}

\* C19 (as claimed): native Windows, no generator, MSYS environment: the
\* generator is the first of 'MinGW Makefiles', 'Ninja', 'Unix Makefiles'
\* among the reported generators, and a warning is emitted whenever 'MinGW
\* Makefiles' is not among them.
C19_MsysPrefersMinGW ==
    (NativeWindowsAuto /\ MsysEnvironment) =>
        LET alt == Found(MakefileCandidates, Reported(env.alt))
        IN  /\ alt # {} => builderGenerator = MakefileCandidates[MinOf(alt)]
            /\ ~Mentions(Reported(env.alt), "MinGW Makefiles") => warnings # {}

\* C20 (as claimed): whenever get_cmake_args of the Windows builder resolved
\* a Visual Studio generator, on whatever path, the arguments hold '-A'
\* 'x64' for x86_64, '-A' 'Win32' for x86 and no '-A' otherwise; for any
\* other generator they hold no '-A'.
C20_ArchFlagForVisualStudio ==
    (pc = "resolved" /\ platform = "windows") =>
        LET flag == {i \in 1..Len(cmake_args) : cmake_args[i] = "-A"}
        IN  IF Truthy(current_generator) /\ IsVisualStudio(current_generator)
            THEN CASE arch = "x86_64" ->
                        \E i \in flag : i < Len(cmake_args) /\ cmake_args[i + 1] = "x64"
                   [] arch = "x86" ->
                        \E i \in flag : i < Len(cmake_args) /\ cmake_args[i + 1] = "Win32"
                   [] OTHER -> flag = {}
            ELSE flag = {}

\* build_cmd of a build_project call that got as far as running the build.
BuildRan == build.build_cmd # << >>

C22_JobCountInBuildCommand ==
    BuildRan =>
        \E i \in 1..(Len(build.build_cmd) - 1) :
            /\ build.build_cmd[i] = "-j"
            /\ build.build_cmd[i + 1] = IF build.JOBS = None THEN "4" ELSE build.JOBS

\* configure_cmake is inside the cache invalidator: check_and_clean_cmake_cache
\* or _clean_cmake_cache_files was called and cmake has not been started.
InvalidatorReached ==
    \/ pc = "check"
    \/ cc # NoCc
    \/ cl # NoCl
    \/ pc = "rm" /\ rm.caller # "copy"

\* The requests for which get_cmake_args emits no '-G': the builders of
\* linux, macos, android and ios, and the Windows cross-build with a toolchain
\* file and no generator.
NoGeneratorRequest ==
    \/ platform \in {"linux", "macos", "android", "ios"}
    \/ /\ platform = "windows" /\ host # "win32"
       /\ toolchainArg # None /\ generatorArg = None

ProbesOf(run) ==
    IF run.primary = "raise" THEN << "cmake -G", "cmake --help" >> ELSE << "cmake -G" >>

\* The alternative detector was called: always in an MSYS environment,
\* otherwise when the Visual Studio detector returned None.
AlternativeCalled == MsysEnvironment \/ ~IsVisualStudio(builderGenerator)

C26_NativeAlwaysResolves ==
    [][(pc = "configure" /\ platform = "windows" /\ host = "win32") =>
          /\ pc' = "resolved"
          /\ Cardinality({i \in 1..Len(cmake_args') : cmake_args'[i] = "-G"}) = 1
          /\ Truthy(GeneratorOf(cmake_args'))
          /\ builderGenerator' = GeneratorOf(cmake_args')
          /\ generatorArg # None =>
                 /\ GeneratorOf(cmake_args') = generatorArg
                 /\ probes' = << >>]_vars

\* run_tests was called and has raised: main caught the exception.
RunTestsRaised == tests.called /\ pc = "exit"

\* C27 (as claimed): run_tests raises if and only if an executable that was
\* run exited non-zero; every selected executable that exists is run, also
\* after an earlier one failed; a builder that cannot run tests, a filter
\* without a match and missing executables never make the step fail.
C27_RaisesIffATestFailed ==
    tests.called =>
        /\ RunTestsRaised <=> tests.failed # {}
        /\ tests.present \subseteq Range(tests.ran)
        /\ (~can_run_tests(platform) \/ tests.selected = << >> \/ tests.present = {})
               => ~RunTestsRaised

\* _remove_file_with_retry has just returned to its caller.
RemoveFileReturned == pc = "rm" /\ rm.phase = "returned" /\ rm.kind = "file"

\* C28: when _remove_file_with_retry returns True nothing is left at the
\* original path: the file was absent, or the last thing done was a delete
\* that worked, or a rename that worked and left the file under '<name>.old';
\* it returns False only after max_retries failed deletes followed by one
\* failed rename, and the file is then still at the original path.
C28_RemoveFilePostcondition ==
    RemoveFileReturned =>
        LET n == Len(rm.trace)
        IN  /\ rm.ret \in {"True", "False"}
            /\ rm.ret = "True" =>
                   /\ ~Exists(fs, rm.path)
                   /\ \/ n = 0
                      \/ n > 0 /\ rm.trace[n] = "delete ok"
                      \/ n > 0 /\ rm.trace[n] = "rename ok" /\ Exists(fs, OldName(rm.path))
            /\ rm.ret = "False" =>
                   /\ Exists(fs, rm.path)
                   /\ Count(rm.trace, {"delete failed"}) = rm.max
                   /\ Count(rm.trace, {"delete ok", "rename ok"}) = 0
                   /\ n > 0 /\ rm.trace[n] = "rename failed"
                   /\ Count(rm.trace, {"rename failed"}) = 1

C28_Witness ==
    /\ RemoveFileReturned
    /\ rm.ret = "False"
    /\ rm.path = CachePath /\ rm.max = CleanMaxRetries
    /\ Exists(fs, CachePath)
    /\ rm.trace = << "delete failed", "sleep", "delete failed", "sleep", "delete failed",
                     "rename failed" >>

\* The ValueError of build_project, lines 254-255.
BuildDirMissing ==
    Error("ValueError", << "Build directory does not exist: ", BuildDirPath >>)

\* C29: from the moment configure_cmake has called the resolver the build
\* directory exists, whether the resolver returned or raised (android without
\* a toolchain file, iOS off macOS, a macOS cross-build without a toolchain
\* file), and nothing removes it: the run never ends with the 'Build directory
\* does not exist' error of build_project.
C29_BuildDirCreatedFirst ==
    /\ pc # "configure" => fs[BuildDirPath] = Dir
    /\ error # BuildDirMissing
    /\ (pc = "build" \/ build # NoBuild) => fs[BuildDirPath] = Dir

C29_Witness ==
    /\ pc = "exit"
    /\ platform = "android" /\ toolchainArg = None
    /\ started = << "configure" >> /\ completed = << >>
    /\ error.type = "ValueError"
    /\ fs[BuildDirPath] = Dir /\ fs[CachePath] = Absent /\ fs[FilesPath] = Absent

\* ---- C30, C23: the checker scripts

\* The calls of run_all_checks on the ProjectChecker or ToolchainChecker
\* object of the program.
WrappedCalls ==
    IF ck.program \in {"project", "toolchain"}
    THEN {ck.calls[i] : i \in DOMAIN ck.calls} ELSE {}

\* The checks the program's checker has in its list, and what each does in
\* the environment of a call.
ChecksOfProgram ==
    IF ck.program = "project" THEN ProjectChecks ELSE ToolchainChecks(ck.system)

EffectIn(c, check_name) ==
    IF ck.program = "project" THEN ProjectCheck(check_name, c.findings[check_name])
    ELSE ToolchainCheck(ck.system, check_name, c.findings[check_name])

\* C30: ProjectChecker.run_all_checks and ToolchainChecker.run_all_checks
\* return success = True exactly when the returned error list is empty; they
\* call every check of their list, in order, whatever an earlier check
\* reported or raised, and an exception of a check is one entry of the error
\* list (nothing leaves the call); and the lists hold the entries of this
\* call only, so that two calls in the same environment return equal
\* results.
C30_RunAllChecksContract ==
    /\ \A c \in WrappedCalls :
          /\ c.result.raised = None
          /\ c.result.success <=> (c.result.errors = << >>)
          /\ c.result.ran = ChecksOfProgram
          /\ \A n \in Range(ChecksOfProgram) :
                /\ EffectIn(c, n).raised # None =>
                      Cardinality({k \in DOMAIN c.result.errors :
                                      c.result.errors[k] =
                                          n \o " check failed with exception: "
                                            \o EffectIn(c, n).raised}) = 1
                /\ Range(EffectIn(c, n).errors) \subseteq Range(c.result.errors)
          /\ Len(c.result.errors) =
                Cardinality({n \in Range(ChecksOfProgram) : EffectIn(c, n).raised # None})
                + Cardinality(UNION {Range(EffectIn(c, n).errors) :
                                        n \in Range(ChecksOfProgram)})
    /\ ck.program \in {"project", "toolchain"} =>
          \A i, j \in DOMAIN ck.calls :
             ck.calls[i].findings = ck.calls[j].findings =>
                ck.calls[i].result = ck.calls[j].result

\* Two calls on one ProjectChecker in the same tree: the first check reports
\* a missing directory, a later one raises, the last one reports a missing
\* file; both calls return the same three errors.
C30_Witness ==
    /\ ck.program = "project"
    /\ Len(ck.calls) = 2
    /\ ck.calls[1].findings = ck.calls[2].findings
    /\ ck.calls[1].findings["Project Structure"] = "missing"
    /\ ck.calls[1].findings["Git Submodules"] = "raises"
    /\ ck.calls[1].findings["CMakeLists.txt"] = "not found"
    /\ ck.calls[2].result.success = FALSE
    /\ Len(ck.calls[2].result.errors) = 3
    /\ ck.calls[2].result.ran = ProjectChecks
    /\ ck.calls[1].result = ck.calls[2].result

\* The calls of CrossCompileChecker.run_all_checks: the one of
\* cross_compile_check.py, the last of the three of check_all.py.
CrossCalls ==
    CASE ck.program = "cross" -> {ck.calls[i] : i \in DOMAIN ck.calls}
      [] ck.program = "check_all" /\ ck.calls # << >> -> {ck.calls[3]}
      [] OTHER -> {}

\* C23: CrossCompileChecker.run_all_checks returns success = True and an
\* empty error list for every target platform and every environment, what
\* is missing being recorded as warnings or info only, and check_all goes on
\* to its summary and exit status after it.
C23_CrossChecksAreSoft ==
    /\ \A c \in CrossCalls :
          /\ c.result.raised = None
          /\ c.result.success
          /\ c.result.errors = << >>
    /\ ck.program \in {"cross", "check_all"} => ck.exit # "traceback"

====
